---------------------------- MODULE Spec2Model ----------------------------
(***************************************************************************)
(* Model of the AI-Multi-Tools front end.                                  *)
(*                                                                         *)
(* Part 1: the PCM-to-WAV encoder of components/TextToSpeech.tsx           *)
(* (writeString, encodeWAV) as operators over byte sequences, applied by   *)
(* the actions of Spec to inputs drawn in Init.                            *)
(* Part 2: the TextToSpeech component (decode, handleSubmit) and           *)
(* services/geminiService generateSpeech, as the state machine SpecTTS.    *)
(* Part 3: two encodeWAV invocations interleaved on one heap, SpecPar.     *)
(* Part 4: services/db (device identifier, sessions and messages stores),  *)
(* SpecDb.                                                                 *)
(* Part 5: the ChatBot component over those stores, SpecChat.              *)
(* Part 6: App with ImageAnalysis, ImageGeneration and VideoGeneration,    *)
(* SpecTools; SpecVideo is SpecTools with the fairness under which         *)
(* handleSubmit of VideoGeneration comes to its end.                       *)
(* Part 7: MapsSearch and services/geminiService getCoordinatesForPlaces,  *)
(* SpecMaps.                                                               *)
(*                                                                         *)
(* Bytes are 0..255.  A JavaScript number that is an integer is a "Num":   *)
(* its little-endian base-256 digits, NumLimbs of them, because the byte   *)
(* rate of a uint32 sample rate and a uint16 channel count needs 49 bits   *)
(* and TLC's integers have 31.  A buffer offset o of the source is index    *)
(* o + 1 of the sequence.                                                  *)
(***************************************************************************)
EXTENDS Integers, Sequences, FiniteSets, TLC

VARIABLES
    \* ---- encodeWAV harness (Spec) ----
    samples,      \* the Uint8Array argument: [buffer, byteOffset, length]
    sampleRate,   \* the sampleRate argument, a uint32 as 4 limbs
    numChannels,  \* the numChannels argument, a uint16
    pc,           \* "ready" | "returned" | "thrown": the last invocation
    out,          \* the output buffer of the last invocation on the inputs
    firstOut,     \* the output of the first invocation on the inputs
    calls,        \* the encodeWAV invocations made so far, oldest first:
                  \* "same" on the inputs above, "other" on other inputs
    \* ---- TextToSpeech component (SpecTTS) ----
    text,         \* useState text
    audioUrl,     \* useState audioUrl: Null or the object URL of a blob
    isLoading,    \* useState isLoading
    error,        \* useState error
    request,      \* the generateSpeech call handleSubmit awaits, or Null
    \* ---- interleaved encodeWAV invocations (SpecPar) ----
    heap,         \* the ArrayBuffers: buffer id |-> its bytes
    inv,          \* the invocations: arguments, position, output buffer id
    given,        \* the bytes of each invocation's input buffer at its call
    alone,        \* what each invocation returns when it runs alone
    \* ---- services/db: localStorage and the IndexedDB stores ----
    localStorageItem, \* localStorage[DEVICE_ID_KEY]: Null or a string
    sessionsStore,    \* object store 'sessions': the ChatSession records
    messagesStore,    \* object store 'messages': HistoryMessage records in key order
    uuids,            \* the ids crypto.randomUUID has handed out for sessions
    saved,            \* the sessions whose saveNewSession has resolved
    sessionsReturned, \* the last result of getSessions, with its argument
    deviceIds,        \* what getDeviceId returned since local storage was last cleared
    generated,        \* identifiers getDeviceId generated since then
    \* ---- ChatBot ----
    now,              \* what Date.now() returns
    chat,             \* state: the Chat instance, or Null
    messages,         \* state: the messages shown
    userInput,        \* state: the text typed
    chatIsLoading,    \* state isLoading of ChatBot
    sessions,         \* state: the list of the history panel
    activeSessionId,  \* state: the id of the session shown, or NoSession
    send,             \* the call of handleSendMessage in flight: where it waits
    load,             \* the call of loadSessions
    accepted,         \* the sends handleSendMessage accepted, with what became of them
    \* ---- App and the tools with an API key or a file ----
    activeTool,       \* state of App: the tool mounted
    imageGeneration,  \* the state of ImageGeneration and where its handlers wait
    videoGeneration,  \* the state of VideoGeneration and where its handlers wait
    imageAnalysis,    \* the state of ImageAnalysis and where its handlers wait
    \* ---- MapsSearch and getCoordinatesForPlaces ----
    mapsSearch,       \* the state of MapsSearch and where its handleSubmit waits
    coordsCalls       \* the calls of getCoordinatesForPlaces, oldest first

encVars == <<samples, sampleRate, numChannels, pc, out, firstOut, calls>>
ttsVars == <<text, audioUrl, isLoading, error, request>>
parVars == <<heap, inv, given, alone>>
dbVars == <<localStorageItem, sessionsStore, messagesStore, uuids, saved,
            sessionsReturned, deviceIds, generated>>
vars == <<samples, sampleRate, numChannels, pc, out, firstOut, calls,
          text, audioUrl, isLoading, error, request,
          heap, inv, given, alone,
          localStorageItem, sessionsStore, messagesStore, uuids, saved,
          sessionsReturned, deviceIds, generated,
          now, chat, messages, userInput, chatIsLoading, sessions,
          activeSessionId, send, load, accepted,
          activeTool, imageGeneration, videoGeneration, imageAnalysis,
          mapsSearch, coordsCalls>>
chatVars == <<now, chat, messages, userInput, chatIsLoading, sessions,
              activeSessionId, send, load, accepted>>

\* what the actions of one part leave alone: the variables of the other parts
toolVars == <<activeTool, imageGeneration, videoGeneration, imageAnalysis>>
mapsVars == <<mapsSearch, coordsCalls>>
notEnc == <<ttsVars, parVars, dbVars, chatVars, toolVars, mapsVars>>
notTTS == <<encVars, parVars, dbVars, chatVars, toolVars, mapsVars>>
notPar == <<encVars, ttsVars, dbVars, chatVars, toolVars, mapsVars>>
notDb == <<encVars, ttsVars, parVars, chatVars, toolVars, mapsVars>>
notChat == <<encVars, ttsVars, parVars, toolVars, mapsVars>>
notTools == <<encVars, ttsVars, parVars, dbVars, chatVars, mapsVars>>
notMaps == <<encVars, ttsVars, parVars, dbVars, chatVars, toolVars>>

\* null / undefined; state that is null or a record is a record all along
Null == [kind |-> "null"]

-----------------------------------------------------------------------------
(* Bounds of the model. *)

\* longest underlying ArrayBuffer of the samples argument
MaxBufLen == 3
\* encodeWAV invocations followed in one behaviour
MaxCalls == 3
\* longest base64 payload returned by the speech API
MaxB64Len == 4
\* longest text typed into the textarea
MaxTextLen == 2
\* longest input buffer of an interleaved invocation
MaxParLen == 2
\* chat sessions created in one behaviour
MaxSessions == 3
\* latest reading of the clock
MaxClock == 1
\* getDeviceId calls followed between two clearings of local storage
MaxIdCalls == 3
\* messages handleSendMessage accepts in one behaviour
MaxSends == 2
\* status checks of a video operation that are counted
MaxPolls == 2
\* previews of ImageAnalysis being read at one time
MaxReaders == 1

\* grounding chunks of one Maps search response, and place titles of one call
MaxSources == 2
\* getCoordinatesForPlaces calls followed in one behaviour
MaxCoordsCalls == 1
-----------------------------------------------------------------------------
(* Integers as little-endian base-256 digits. *)

\* digits kept of a number: 7 hold every product the encoder forms
NumLimbs == 7

RECURSIVE Limbs(_, _)
\* the k low base-256 digits of the integer n >= 0
Limbs(n, k) ==
    IF k = 0 THEN <<>> ELSE <<n % 256>> \o Limbs(n \div 256, k - 1)

\* a small integer as a JavaScript number
Number(n) == Limbs(n, NumLimbs)

\* a digit sequence padded with zero high digits to NumLimbs digits
Widen(num) == num \o [i \in 1..(NumLimbs - Len(num)) |-> 0]

RECURSIVE MulCarry(_, _, _)
\* digits of num * m + carry, as many digits as num has
MulCarry(num, m, carry) ==
    IF num = <<>> THEN <<>>
    ELSE LET t == Head(num) * m + carry
         IN  <<t % 256>> \o MulCarry(Tail(num), m, t \div 256)

\* the exact product of a Num and an integer m < 2^17 (no wrap: 32 + 17 < 56 bits)
Times(num, m) == MulCarry(Widen(num), m, 0)

\* ToUint32 / ToUint16 / ToUint8 of an integral Number: the value modulo 2^w
ToUint32(num) == SubSeq(num, 1, 4)
ToUint16(num) == SubSeq(num, 1, 2)
ToUint8(num) == SubSeq(num, 1, 1)

\* the integer a short digit sequence stands for (at most 3 digits are non-zero)
IntOf(num) ==
    num[1] + 256 * (IF Len(num) >= 2 THEN num[2] ELSE 0)
           + 65536 * (IF Len(num) >= 3 THEN num[3] ELSE 0)

-----------------------------------------------------------------------------
(* Typed arrays and DataView. *)

\* new ArrayBuffer(n): n zero bytes
ArrayBuffer(n) == [i \in 1..n |-> 0]

\* the bytes a Uint8Array view shows: samples[0 .. length-1]
Elements(view) ==
    SubSeq(view.buffer, view.byteOffset + 1, view.byteOffset + view.length)

\* new Uint8Array(arrayBuffer): a view of the whole buffer
Uint8ArrayOf(buffer) ==
    [buffer |-> buffer, byteOffset |-> 0, length |-> Len(buffer)]

\* DataView.prototype.setUint8 within bounds
setUint8(view, byteOffset, value) ==
    [view EXCEPT ![byteOffset + 1] = ToUint8(value)[1]]

\* setUint16 with the littleEndian argument left out: big-endian
setUint16_bigEndian(view, byteOffset, value) ==
    LET u == ToUint16(value)
    IN  [view EXCEPT ![byteOffset + 1] = u[2], ![byteOffset + 2] = u[1]]

\* DataView.prototype.setUint16(byteOffset, value, true)
setUint16(view, byteOffset, value) ==
    LET u == ToUint16(value)
    IN  [view EXCEPT ![byteOffset + 1] = u[1], ![byteOffset + 2] = u[2]]

\* DataView.prototype.setUint32(byteOffset, value, true)
setUint32(view, byteOffset, value) ==
    LET u == ToUint32(value)
    IN  [view EXCEPT ![byteOffset + 1] = u[1], ![byteOffset + 2] = u[2],
                     ![byteOffset + 3] = u[3], ![byteOffset + 4] = u[4]]

\* String.prototype.charCodeAt of the ASCII characters the encoder writes
charCode ==
    [c \in {"R", "I", "F", "W", "A", "V", "E", "f", "m", "t", " ", "d", "a"} |->
        CASE c = "R" -> 82  [] c = "I" -> 73  [] c = "F" -> 70
          [] c = "W" -> 87  [] c = "A" -> 65  [] c = "V" -> 86
          [] c = "E" -> 69  [] c = "f" -> 102 [] c = "m" -> 109
          [] c = "t" -> 116 [] c = " " -> 32  [] c = "d" -> 100
          [] c = "a" -> 97]

RECURSIVE writeStringFrom(_, _, _, _)
\* the for loop of writeString, from index i on
writeStringFrom(view, offset, string, i) ==
    IF i >= Len(string) THEN view
    ELSE writeStringFrom(setUint8(view, offset + i, Number(charCode[string[i + 1]])),
                         offset, string, i + 1)

\* writeString whose loop starts at 1
writeString_fromOne(view, offset, string) == writeStringFrom(view, offset, string, 1)

\* writeString(view, offset, string); a string is the sequence of its characters
writeString(view, offset, string) == writeStringFrom(view, offset, string, 0)

-----------------------------------------------------------------------------
(* encodeWAV. *)

bitsPerSample == 16

\* const blockAlign = (numChannels * bitsPerSample) / 8;
blockAlign(nc) == (nc * bitsPerSample) \div 8

\* byteRate without the bytes per sample
byteRate_noAlign(sr, nc) == Times(sr, nc)

\* const byteRate = sampleRate * blockAlign;
byteRate(sr, nc) == Times(sr, blockAlign(nc))

\* the output sized by the underlying buffer instead of the view
bufferByteLength_whole(s) == 44 + Len(s.buffer)

\* new ArrayBuffer(44 + samples.length)
bufferByteLength(s) == 44 + s.length

\* the RIFF chunk length counting its own 8 bytes
chunkSize_total(s) == 44 + s.length

\* view.setUint32(4, 36 + samples.length, true)
chunkSize(s) == 36 + s.length

\* the data chunk length counting the header
dataSize_total(s) == 44 + s.length

\* view.setUint32(40, samples.length, true)
dataSize(s) == s.length

\* new Uint8Array(samples.buffer): the WHOLE underlying buffer of samples
pcmOf(s) == Uint8ArrayOf(s.buffer)

\* the header writes of encodeWAV, in source order
WriteHeader(view, s, sr, nc) ==
    LET v1  == writeString(view, 0, <<"R", "I", "F", "F">>)
        v2  == setUint32(v1, 4, Number(chunkSize(s)))
        v3  == writeString(v2, 8, <<"W", "A", "V", "E">>)
        v4  == writeString(v3, 12, <<"f", "m", "t", " ">>)
        v5  == setUint32(v4, 16, Number(16))
        v6  == setUint16(v5, 20, Number(1))
        v7  == setUint16(v6, 22, Number(nc))
        v8  == setUint32(v7, 24, Widen(sr))
        v9  == setUint32(v8, 28, byteRate(sr, nc))
        v10 == setUint16(v9, 32, Number(blockAlign(nc)))
        v11 == setUint16(v10, 34, Number(bitsPerSample))
        v12 == writeString(v11, 36, <<"d", "a", "t", "a">>)
    IN  setUint32(v12, 40, Number(dataSize(s)))

\* the copy loop reading pcm[0] at every step
CopyPCM_first(view, pcm, i) ==
    IF pcm.length > Len(view) - 44
    THEN [kind |-> "call", status |-> "thrown", buffer |-> view]
    ELSE [kind |-> "call", status |-> "returned",
          buffer |-> [k \in 1..Len(view) |->
                        IF k > 44 /\ k <= 44 + pcm.length
                        THEN Elements(pcm)[1] ELSE view[k]]]

RECURSIVE CopyPCM(_, _, _)
\* for (let i = 0; i < pcm.length; i++) view.setUint8(44 + i, pcm[i]);
\* setUint8 throws a RangeError when 44 + i is outside the DataView
CopyPCM(view, pcm, i) ==
    IF i >= pcm.length THEN [kind |-> "call", status |-> "returned", buffer |-> view]
    ELSE IF 44 + i >= Len(view) THEN [kind |-> "call", status |-> "thrown", buffer |-> view]
    ELSE CopyPCM(setUint8(view, 44 + i, Number(Elements(pcm)[i + 1])), pcm, i + 1)

\* encodeWAV adding the number of earlier invocations to the chunk length
encodeWAV_stamped(s, sr, nc) ==
    LET header == WriteHeader(ArrayBuffer(bufferByteLength(s)), s, sr, nc)
    IN  CopyPCM(setUint32(header, 4, Number(chunkSize(s) + Len(calls))), pcmOf(s), 0)

\* encodeWAV(samples, sampleRate, numChannels): what it did (kind "call") and,
\* in buffer, the Blob's bytes when it returned, the buffer as the RangeError
\* left it when it threw
encodeWAV(s, sr, nc) ==
    CopyPCM(WriteHeader(ArrayBuffer(bufferByteLength(s)), s, sr, nc), pcmOf(s), 0)

-----------------------------------------------------------------------------
(* The inputs encodeWAV is applied to. *)

\* byte values of the sample buffers: silence, and a non-zero byte
SampleBytes == {0, 255}

RECURSIVE SeqsUpTo(_, _)
\* the sequences over S of length at most n
SeqsUpTo(S, n) ==
    IF n = 0 THEN {<<>>}
    ELSE LET shorter == SeqsUpTo(S, n - 1)
         IN  shorter \cup {Append(q, x) : q \in {r \in shorter : Len(r) = n - 1}, x \in S}

\* every Uint8Array over a buffer of at most MaxBufLen bytes: the whole
\* buffer (byteOffset 0, length Len(buffer)) or a sub-range of it
Uint8Arrays ==
    UNION {{[buffer |-> b, byteOffset |-> o, length |-> l] :
                o \in 0..Len(b), l \in 0..Len(b)} :
           b \in SeqsUpTo(SampleBytes, MaxBufLen)}

\* 24000 as a uint32: the rate the text-to-speech caller passes
Rate24000 == Limbs(24000, 4)

\* positive uint32 sample rates: the caller's 24000, and the largest, 2^32 - 1
SampleRates == {Rate24000, <<255, 255, 255, 255>>}

\* positive uint16 channel counts: mono, stereo, and the largest
ChannelCounts == {1, 2, 65535}

-----------------------------------------------------------------------------
(* Spec: encodeWAV applied to inputs drawn in Init. *)

TTSIdle ==
    /\ text = <<>>
    /\ audioUrl = Null
    /\ isLoading = FALSE
    /\ error = ""
    /\ request = Null

\* nothing stored, nothing asked
DbIdle ==
    /\ localStorageItem = Null
    /\ sessionsStore = {}
    /\ messagesStore = <<>>
    /\ uuids = {}
    /\ saved = {}
    /\ sessionsReturned = Null
    /\ deviceIds = <<>>
    /\ generated = 0

\* ImageGeneration as mounted: checkApiKey waits for hasSelectedApiKey
ImageGenerationMounted ==
    [prompt |-> <<>>, generatedImage |-> Null, isLoading |-> FALSE, error |-> <<>>,
     apiKeySelected |-> FALSE, checkApiKey |-> "pending", handleSubmit |-> "idle",
     caught |-> Null]

\* VideoGeneration as mounted
VideoGenerationMounted ==
    [prompt |-> <<>>, imageFile |-> Null, imagePreview |-> Null,
     generatedVideoUrl |-> Null, isLoading |-> FALSE, error |-> <<>>,
     apiKeySelected |-> FALSE, checkApiKey |-> "pending", handleSubmit |-> "idle",
     closure |-> Null, operation |-> Null, polls |-> 0, caught |-> Null,
     chosen |-> Null]

\* ImageAnalysis as mounted
ImageAnalysisMounted ==
    [prompt |-> <<"a">>, image |-> Null, file |-> Null, analysis |-> Null,
     croppedObjectImages |-> <<>>, isLoading |-> FALSE, error |-> <<>>,
     readers |-> <<>>, handleAnalyze |-> "idle", closure |-> Null, chosen |-> Null]

\* none of the three tools is the active one
ToolsIdle ==
    /\ activeTool = "chat"
    /\ imageGeneration = ImageGenerationMounted
    /\ videoGeneration = VideoGenerationMounted
    /\ imageAnalysis = ImageAnalysisMounted

\* MapsSearch as mounted: the effect has run on a null response
MapsSearchMounted ==
    [prompt |-> <<>>, response |-> Null,
     placesWithCoords |-> [kind |-> "array", items |-> <<>>],
     isLoading |-> FALSE, isFetchingCoords |-> FALSE, error |-> <<>>,
     handleSubmit |-> "idle"]

\* MapsSearch is not used and getCoordinatesForPlaces was not called
MapsIdle ==
    /\ mapsSearch = MapsSearchMounted
    /\ coordsCalls = <<>>

\* activeSessionId === null
NoSession == 0

\* no call of handleSendMessage in flight; displayed tells that the
\* conversation shown is still the one the call was made in
IdleSend == [pc |-> "idle", n |-> 0, currentInput |-> <<>>, currentSessionId |-> NoSession,
             newSession |-> Null, message |-> Null, displayed |-> TRUE]

\* ChatBot is not mounted
ChatIdle ==
    /\ now = 0
    /\ chat = Null
    /\ messages = <<>>
    /\ userInput = <<>>
    /\ chatIsLoading = FALSE
    /\ sessions = <<>>
    /\ activeSessionId = NoSession
    /\ send = IdleSend
    /\ load = [pc |-> "done", savedSessions |-> <<>>]
    /\ accepted = <<>>

\* no interleaved invocations
ParIdle ==
    /\ heap = <<>>
    /\ inv = <<>>
    /\ given = <<>>
    /\ alone = <<>>

Init ==
    /\ samples \in {v \in Uint8Arrays : v.byteOffset + v.length <= Len(v.buffer)}
    /\ sampleRate \in SampleRates
    /\ numChannels \in ChannelCounts
    /\ pc = "ready"
    /\ out = <<>>
    /\ firstOut = Null
    /\ calls = <<>>
    /\ TTSIdle
    /\ ParIdle
    /\ DbIdle
    /\ ChatIdle
    /\ ToolsIdle
    /\ MapsIdle

\* encodeWAV(samples, sampleRate, numChannels) is invoked and runs to its
\* return or its throw
Encode ==
    /\ Len(calls) < MaxCalls
    /\ LET r == encodeWAV(samples, sampleRate, numChannels)
       IN  /\ pc' = r.status
           /\ out' = r.buffer
           /\ firstOut' = IF firstOut = Null THEN r ELSE firstOut
    /\ calls' = Append(calls, "same")
    /\ UNCHANGED <<samples, sampleRate, numChannels>>
    /\ UNCHANGED notEnc

\* encodeWAV is invoked by another caller on other inputs: it writes its own
\* new buffer only
EncodeOther ==
    /\ Len(calls) < MaxCalls
    /\ \E nc \in ChannelCounts \ {numChannels} :
          encodeWAV(samples, sampleRate, nc).status \in {"returned", "thrown"}
    /\ calls' = Append(calls, "other")
    /\ UNCHANGED <<samples, sampleRate, numChannels, pc, out, firstOut>>
    /\ UNCHANGED notEnc

Next == Encode \/ EncodeOther

Spec == Init /\ [][Next]_vars

-----------------------------------------------------------------------------
(* Reading a container. *)

U32At(bytes, offset) == SubSeq(bytes, offset + 1, offset + 4)
U16At(bytes, offset) == SubSeq(bytes, offset + 1, offset + 2)

\* ASCII
RIFF == <<82, 73, 70, 70>>
WAVE == <<87, 65, 86, 69>>
FMT  == <<102, 109, 116, 32>>
DATA == <<100, 97, 116, 97>>

\* a parser of the canonical 44-byte-header RIFF/WAVE PCM file
ParseWAV(bytes) ==
    IF \/ Len(bytes) < 44
       \/ U32At(bytes, 0) # RIFF \/ U32At(bytes, 8) # WAVE
       \/ U32At(bytes, 12) # FMT \/ U32At(bytes, 36) # DATA
       \/ U32At(bytes, 16) # <<16, 0, 0, 0>> \/ U16At(bytes, 20) # <<1, 0>>
       \/ U32At(bytes, 40)[3] # 0 \/ U32At(bytes, 40)[4] # 0
       \/ 44 + IntOf(U32At(bytes, 40)) > Len(bytes)
    THEN [ok |-> FALSE]
    ELSE [ok |-> TRUE,
          sampleRate |-> U32At(bytes, 24),
          numChannels |-> IntOf(U16At(bytes, 22)),
          bitsPerSample |-> IntOf(U16At(bytes, 34)),
          payload |-> SubSeq(bytes, 45, 44 + IntOf(U32At(bytes, 40)))]

\* the last invocation on the inputs has ended, by return or throw
Ended == pc # "ready"
Returned == pc = "returned"

\* sampleRate * numChannels * 2 and numChannels * 2, exactly
ExactByteRate == Times(sampleRate, numChannels * 2)
ExactBlockAlign == Number(numChannels * 2)

-----------------------------------------------------------------------------
(* Claims about encodeWAV, checked under Spec. *)

\* C1: whenever encodeWAV returns, the container is exactly
\* 44 + samples.length bytes long.
C1_Length == Returned => Len(out) = 44 + samples.length

C1_Witness == Returned /\ samples.length = 2 /\ numChannels = 2

\* C2: for every invocation the buffer holds "RIFF" at 0, "WAVE" at 8,
\* "fmt " at 12, "data" at 36, Subchunk1Size 16 at 16, AudioFormat 1 at 20
\* and BitsPerSample 16 at 34, whatever the inputs.
C2_Markers ==
    Ended =>
        /\ U32At(out, 0) = RIFF
        /\ U32At(out, 8) = WAVE
        /\ U32At(out, 12) = FMT
        /\ U32At(out, 36) = DATA
        /\ U32At(out, 16) = <<16, 0, 0, 0>>
        /\ U16At(out, 20) = <<1, 0>>
        /\ U16At(out, 34) = <<16, 0>>

C2_Witness ==
    Returned /\ samples.length = 3 /\ numChannels = 2
             /\ sampleRate = <<255, 255, 255, 255>>

\* C3 as stated: for every positive uint32 sampleRate and positive uint16
\* numChannels the ByteRate field equals sampleRate * numChannels * 2 and
\* the BlockAlign field equals numChannels * 2.
C3_Original ==
    Ended =>
        /\ Widen(U32At(out, 28)) = ExactByteRate
        /\ Widen(U16At(out, 32)) = ExactBlockAlign

\* C3 amended: the ByteRate field equals sampleRate * numChannels * 2
\* modulo 2^32 and the BlockAlign field equals numChannels * 2 modulo 2^16;
\* they are the exact products whenever those fit the fields.
C3_Amended ==
    Ended =>
        /\ U32At(out, 28) = ToUint32(ExactByteRate)
        /\ U16At(out, 32) = ToUint16(ExactBlockAlign)
        /\ ((\A i \in 5..NumLimbs : ExactByteRate[i] = 0)
                => Widen(U32At(out, 28)) = ExactByteRate)
        /\ (numChannels < 32768 => IntOf(U16At(out, 32)) = numChannels * 2)

C3_Witness ==
    /\ Returned /\ numChannels = 2 /\ sampleRate = Rate24000
    /\ U16At(out, 32) = <<4, 0>>
    /\ U32At(out, 28) = Limbs(96000, 4)

\* C4: the ChunkSize field at offset 4 is 36 + samples.length and the
\* Subchunk2Size field at offset 40 is samples.length.
C4_Sizes ==
    Ended =>
        /\ U32At(out, 4) = Limbs(36 + samples.length, 4)
        /\ U32At(out, 40) = Limbs(samples.length, 4)

C4_Witness == Returned /\ samples.length = 3 /\ U32At(out, 4) = <<39, 0, 0, 0>>

\* C5: encodeWAV is total: it returns for every Uint8Array, whether it spans
\* its whole buffer or a sub-range of a larger one, and raises no error.
C5_Total == pc # "thrown"

\* C6: in the returned container byte 44 + i is samples[i], and nothing
\* follows the payload.
C6_Payload ==
    Returned =>
        /\ Len(out) = 44 + samples.length
        /\ \A i \in 0..(samples.length - 1) : out[44 + i + 1] = Elements(samples)[i + 1]

C6_Witness == Returned /\ Elements(samples) = <<0, 255, 0>>

\* C7: parsing the returned container as a canonical RIFF/WAVE file gives
\* back sampleRate, numChannels, bit depth 16 and the samples as payload.
C7_RoundTrip ==
    Returned =>
        ParseWAV(out) = [ok |-> TRUE,
                         sampleRate |-> sampleRate,
                         numChannels |-> numChannels,
                         bitsPerSample |-> 16,
                         payload |-> Elements(samples)]

C7_Witness ==
    Returned /\ Elements(samples) = <<255, 0>> /\ numChannels = 65535
             /\ sampleRate = <<255, 255, 255, 255>>

C10_EmptyInput ==
    (Ended /\ samples = Uint8ArrayOf(<<>>) /\ sampleRate = Rate24000 /\ numChannels = 1)
        => /\ Returned
           /\ Len(out) = 44
           /\ U32At(out, 40) = <<0, 0, 0, 0>>
           /\ U32At(out, 4) = <<36, 0, 0, 0>>

C10_Witness ==
    Returned /\ samples = Uint8ArrayOf(<<>>) /\ sampleRate = Rate24000 /\ numChannels = 1

-----------------------------------------------------------------------------
(* The TextToSpeech component and generateSpeech.  A string is the sequence *)
(* of its characters; an error message is a TLA+ string.                     *)

\* characters typed into the textarea: a blank and a letter
TextChars == {" ", "a"}

\* characters of the base64 payload: two of the alphabet (values 0 and 63),
\* the padding sign, ASCII whitespace, and one outside the alphabet
Base64Chars == {"A", "/", "=", " ", "!"}

\* white space String.prototype.trim removes: the space, and the no-break
\* space "nbsp" (U+00A0) for the white space that is not ASCII
IsWhitespace(c) == c \in {" ", "nbsp"}

\* the 6-bit value of a character of the base64 alphabet
sextet == [c \in {"A", "/"} |-> IF c = "A" THEN 0 ELSE 63]

RECURSIVE trimStart(_)
trimStart(str) ==
    IF str # <<>> /\ IsWhitespace(Head(str)) THEN trimStart(Tail(str)) ELSE str

RECURSIVE trimEnd(_)
trimEnd(str) ==
    IF str # <<>> /\ IsWhitespace(str[Len(str)])
    THEN trimEnd(SubSeq(str, 1, Len(str) - 1)) ELSE str

\* String.prototype.trim
trim(str) == trimEnd(trimStart(str))

RECURSIVE decodeSextets(_)
\* the bytes of a run of alphabet characters: 3 per 4 characters, then 1 for
\* 2 left over (12 bits, the low 4 dropped) or 2 for 3 (18 bits, the low 2 dropped)
decodeSextets(data) ==
    IF Len(data) >= 4
    THEN LET n == sextet[data[1]] * 262144 + sextet[data[2]] * 4096
                    + sextet[data[3]] * 64 + sextet[data[4]]
         IN  <<n \div 65536, (n \div 256) % 256, n % 256>>
                 \o decodeSextets(SubSeq(data, 5, Len(data)))
    ELSE IF Len(data) = 2
    THEN <<(sextet[data[1]] * 64 + sextet[data[2]]) \div 16>>
    ELSE IF Len(data) = 3
    THEN LET n == (sextet[data[1]] * 4096 + sextet[data[2]] * 64 + sextet[data[3]]) \div 4
         IN  <<n \div 256, n % 256>>
    ELSE <<>>

\* window.atob (forgiving-base64 decode): whitespace is removed; of a length
\* that is a multiple of 4 one or two trailing "=" are removed; a length of
\* 1 modulo 4 or a character outside the alphabet is an InvalidCharacterError
atob(base64) ==
    LET data == SelectSeq(base64, LAMBDA c : ~IsWhitespace(c))
        n == Len(data)
        stripped ==
            IF n % 4 = 0 /\ n > 0 /\ data[n] = "="
            THEN IF data[n - 1] = "=" THEN SubSeq(data, 1, n - 2)
                                      ELSE SubSeq(data, 1, n - 1)
            ELSE data
    IN  IF Len(stripped) % 4 = 1 \/ \E i \in 1..Len(stripped) : stripped[i] \notin DOMAIN sextet
        THEN [ok |-> FALSE]
        ELSE [ok |-> TRUE, binaryString |-> decodeSextets(stripped)]

\* decode(base64): the Uint8Array of the char codes of atob(base64), a view
\* of a buffer of its own; atob's exception passes through
decode(base64) ==
    LET r == atob(base64)
    IN  IF r.ok THEN [ok |-> TRUE, bytes |-> Uint8ArrayOf(r.binaryString)]
        ELSE [ok |-> FALSE]

\* what ai.models.generateContent does: it rejects, or it resolves with a
\* response whose first part has inline data (a string) or has none
ApiOutcomes ==
    {[kind |-> "rejected"], [kind |-> "response", data |-> Null]}
        \cup {[kind |-> "response", data |-> [kind |-> "string", chars |-> b]] :
                 b \in SeqsUpTo(Base64Chars, MaxB64Len)}

\* generateSpeech(text), given what the API did
generateSpeech(api) ==
    IF api.kind = "rejected"
    THEN [kind |-> "throw", message |-> "Failed to generate speech. Please try again."]
    ELSE [kind |-> "value", value |-> api.data]

\* the message of the DOMException atob throws is the browser's
DOMExceptionMessages == {"", "The string to be decoded is not correctly encoded."}

\* err.message || 'An unknown error occurred.'
MessageOf(message) == IF message = "" THEN "An unknown error occurred." ELSE message

\* the try block of handleSubmit after the await: the object URL to set, or
\* the message of the error thrown
AfterAwait(reply, domMessage) ==
    IF reply.kind = "throw" THEN [kind |-> "caught", message |-> reply.message]
    ELSE IF reply.value # Null /\ reply.value.chars # <<>>
    THEN LET audioBytes == decode(reply.value.chars)
         IN  IF ~audioBytes.ok THEN [kind |-> "caught", message |-> domMessage]
             ELSE LET audioBlob == encodeWAV(audioBytes.bytes, Rate24000, 1)
                  IN  IF audioBlob.status = "thrown"
                      THEN [kind |-> "caught",
                            message |-> "Offset is outside the bounds of the DataView"]
                      ELSE [kind |-> "url", blob |-> audioBlob.buffer]
    ELSE [kind |-> "caught", message |-> "The model did not return any audio data."]

EncoderIdle ==
    /\ samples = Uint8ArrayOf(<<>>)
    /\ sampleRate = Rate24000
    /\ numChannels = 1
    /\ pc = "ready"
    /\ out = <<>>
    /\ firstOut = Null
    /\ calls = <<>>

\* the component as mounted: the default text stands for any non-blank text
InitTTS ==
    /\ text = <<"a">>
    /\ audioUrl = Null
    /\ isLoading = FALSE
    /\ error = ""
    /\ request = Null
    /\ EncoderIdle
    /\ ParIdle
    /\ DbIdle
    /\ ChatIdle
    /\ ToolsIdle
    /\ MapsIdle

\* onChange of the textarea, which is disabled while loading
SetText ==
    /\ ~isLoading
    /\ \E t \in SeqsUpTo(TextChars, MaxTextLen) : text' = t
    /\ UNCHANGED <<audioUrl, isLoading, error, request>>
    /\ UNCHANGED notTTS

\* handleSubmit up to its await
HandleSubmit ==
    /\ ~(trim(text) = <<>> \/ isLoading)
    /\ isLoading' = TRUE
    /\ audioUrl' = Null
    /\ error' = ""
    /\ request' = [kind |-> "pending"]
    /\ UNCHANGED text
    /\ UNCHANGED notTTS

\* generateSpeech settles and handleSubmit runs from its await to its end
HandleSubmitResume ==
    /\ request.kind = "pending"
    /\ \E api \in ApiOutcomes, domMessage \in DOMExceptionMessages :
          LET reply == generateSpeech(api)
              done == AfterAwait(reply, domMessage)
          IN  /\ audioUrl' = IF done.kind = "url" THEN done ELSE audioUrl
              /\ error' = IF done.kind = "caught" THEN MessageOf(done.message) ELSE error
              /\ request' = [kind |-> "settled", reply |-> reply]
    /\ isLoading' = FALSE
    /\ UNCHANGED text
    /\ UNCHANGED notTTS

\* onClose of the Alert, rendered while error is not empty
CloseAlert ==
    /\ error # ""
    /\ error' = ""
    /\ UNCHANGED <<text, audioUrl, isLoading, request>>
    /\ UNCHANGED notTTS

NextTTS == SetText \/ HandleSubmit \/ HandleSubmitResume \/ CloseAlert

SpecTTS == InitTTS /\ [][NextTTS]_vars

\* a reply handleSubmit has to refuse: no data, an empty payload, a payload
\* that is not base64, or one that decodes to zero bytes
BadReply(reply) ==
    /\ reply.kind = "value"
    /\ \/ reply.value = Null
       \/ ~atob(reply.value.chars).ok
       \/ atob(reply.value.chars).binaryString = <<>>

\* C9: the caller passes encodeWAV a non-empty buffer only: when generateSpeech
\* gives no data or an empty payload, or the payload fails to decode or decodes
\* to zero bytes, handleSubmit sets no audio URL and sets a non-empty error.
C9_CallerRefusesEmpty ==
    [][(request.kind = "pending" /\ request'.kind = "settled")
          => /\ (audioUrl' # Null => Len(audioUrl'.blob) > 44)
             /\ (BadReply(request'.reply) => audioUrl' = Null /\ error' # "")]_vars

-----------------------------------------------------------------------------
(* SpecPar: two invocations of encodeWAV on disjoint input buffers, run      *)
(* statement by statement over one heap of ArrayBuffers and interleaved.     *)
(* A buffer is known by its id, its index in heap; a Uint8Array holds the id *)
(* of its buffer.                                                            *)

Invocations == {1, 2}

\* the Uint8Array with its buffer's bytes in place of the buffer's id
Deref(h, view) ==
    [buffer |-> h[view.buffer], byteOffset |-> view.byteOffset, length |-> view.length]

\* one output buffer kept by the module and handed to every invocation
Allocate_shared(h, n) ==
    IF Len(h) > Cardinality(Invocations)
    THEN [heap |-> h, id |-> Cardinality(Invocations) + 1]
    ELSE [heap |-> Append(h, ArrayBuffer(n)), id |-> Len(h) + 1]

\* new ArrayBuffer(n): a buffer no one else holds
Allocate(h, n) == [heap |-> Append(h, ArrayBuffer(n)), id |-> Len(h) + 1]

\* the copy in the wrong direction: pcm[i] = view.getUint8(44 + i)
WritePCM_back(h, v) ==
    [h EXCEPT ![v.samples.buffer] = setUint8(@, v.i, Number(h[v.buffer][44 + v.i + 1]))]

\* view.setUint8(44 + i, pcm[i]) of invocation v on heap h
WritePCM(h, v) ==
    [h EXCEPT ![v.buffer] = setUint8(@, 44 + v.i, Number(h[v.samples.buffer][v.i + 1]))]

\* the arguments of the two invocations: any Uint8Array over a buffer of its
\* own; 24000 Hz mono for one, 2^32 - 1 Hz stereo for the other
InitPar ==
    /\ \E b1 \in SeqsUpTo(SampleBytes, MaxParLen), b2 \in SeqsUpTo(SampleBytes, MaxParLen) :
        \E o1 \in 0..Len(b1), o2 \in 0..Len(b2) :
        \E l1 \in 0..(Len(b1) - o1), l2 \in 0..(Len(b2) - o2) :
          /\ heap = <<b1, b2>>
          /\ given = <<b1, b2>>
          /\ inv = <<[samples |-> [buffer |-> 1, byteOffset |-> o1, length |-> l1],
                       sampleRate |-> Rate24000, numChannels |-> 1,
                       pc |-> "start", buffer |-> 0, i |-> 0, blob |-> <<>>],
                      [samples |-> [buffer |-> 2, byteOffset |-> o2, length |-> l2],
                       sampleRate |-> <<255, 255, 255, 255>>, numChannels |-> 2,
                       pc |-> "start", buffer |-> 0, i |-> 0, blob |-> <<>>]>>
          /\ alone = [p \in Invocations |->
                        encodeWAV(Deref(heap, inv[p].samples),
                                  inv[p].sampleRate, inv[p].numChannels)]
    /\ EncoderIdle
    /\ TTSIdle
    /\ DbIdle
    /\ ChatIdle
    /\ ToolsIdle
    /\ MapsIdle

\* lines 28-59 of invocation p: the buffer is allocated and the header written
BeginEncode(p) ==
    /\ inv[p].pc = "start"
    /\ LET a == Allocate(heap, bufferByteLength(inv[p].samples))
           header == WriteHeader(a.heap[a.id], inv[p].samples,
                                 inv[p].sampleRate, inv[p].numChannels)
       IN  /\ heap' = [a.heap EXCEPT ![a.id] = header]
           /\ inv' = [inv EXCEPT ![p].pc = "copy", ![p].buffer = a.id, ![p].i = 0]
    /\ UNCHANGED <<given, alone>>
    /\ UNCHANGED notPar

\* lines 62-67 of invocation p, one turn of the loop: the test of i against
\* the length of the whole input buffer, then the write or its RangeError,
\* or the Blob made of the buffer
CopyStep(p) ==
    /\ inv[p].pc = "copy"
    /\ IF inv[p].i >= Len(heap[inv[p].samples.buffer])
       THEN /\ inv' = [inv EXCEPT ![p].pc = "returned", ![p].blob = heap[inv[p].buffer]]
            /\ heap' = heap
       ELSE IF 44 + inv[p].i >= Len(heap[inv[p].buffer])
       THEN /\ inv' = [inv EXCEPT ![p].pc = "thrown", ![p].blob = heap[inv[p].buffer]]
            /\ heap' = heap
       ELSE /\ heap' = WritePCM(heap, inv[p])
            /\ inv' = [inv EXCEPT ![p].i = @ + 1]
    /\ UNCHANGED <<given, alone>>
    /\ UNCHANGED notPar

NextPar == \E p \in Invocations : BeginEncode(p) \/ CopyStep(p)

SpecPar == InitPar /\ [][NextPar]_vars

EndedPar(p) == inv[p].pc \in {"returned", "thrown"}

\* C11: encodeWAV has no side effect: the caller's samples buffer holds the
\* bytes it held at the call, and every other buffer of the heap is the output
\* buffer one invocation allocated for itself.
C11_NoSideEffect ==
    /\ \A p \in Invocations : heap[inv[p].samples.buffer] = given[p]
    /\ \A id \in 1..Len(heap) :
          \/ \E p \in Invocations : inv[p].samples.buffer = id
          \/ Cardinality({p \in Invocations : inv[p].buffer = id}) = 1

C11_Witness ==
    /\ inv[1].pc = "returned" /\ given[1] = <<255, 0>>
    /\ inv[2].pc = "returned" /\ given[2] = <<0, 255>>

\* C12: under every interleaving, each invocation ends as it ends when it
\* runs alone: same return or throw, same bytes.
C12_NoInterference ==
    \A p \in Invocations :
        EndedPar(p) =>
            [kind |-> "call", status |-> inv[p].pc, buffer |-> inv[p].blob] = alone[p]

\* invocation 2 began first and is in the middle of its loop when
\* invocation 1, begun later, has returned
C12_Witness ==
    /\ inv[1].pc = "returned" /\ Len(given[1]) = 2
    /\ inv[2].pc = "copy" /\ inv[2].i = 1 /\ Len(given[2]) = 2
    /\ inv[2].buffer < inv[1].buffer

-----------------------------------------------------------------------------
(* services/db: the device identifier in localStorage, and the two object   *)
(* stores.  A session id (a UUID) is an integer; the order of the integers  *)
(* is the order of the keys.  The 'sessions' store is the set of its        *)
(* records, one per id; the 'messages' store is the sequence of its records *)
(* in the order of their auto-incremented keys.                             *)

SessionIds == 1..MaxSessions
DeviceIds == {"device-A", "device-B"}
Timestamps == 0..MaxClock

String(v) == [kind |-> "string", value |-> v]

\* getDeviceId without the test of the stored value
getDeviceId_always(item, uuid) ==
    [item |-> String(uuid), returned |-> uuid, generated |-> TRUE]

\* getDeviceId(), given the stored item and the UUID crypto.randomUUID would
\* give: the item it leaves in localStorage and the identifier it returns
getDeviceId(item, uuid) ==
    IF item = Null \/ item.value = ""
    THEN [item |-> String(uuid), returned |-> uuid, generated |-> TRUE]
    ELSE [item |-> item, returned |-> item.value, generated |-> FALSE]

\* a put that resolves and stores nothing
dbPut_lost(store, session) == store

\* db.put(SESSIONS_STORE, session): keyPath 'id', the record of that id is replaced
dbPut(store, session) == {r \in store : r.id # session.id} \cup {session}

\* an add that stores the record under two keys
dbAdd_twice(store, message) == Append(Append(store, message), message)

\* db.add(MESSAGES_STORE, message): the key is auto-incremented
dbAdd(store, message) == Append(store, message)

RECURSIVE ByKey(_)
\* the records of a set in the order of their ids
ByKey(records) ==
    IF records = {} THEN <<>>
    ELSE LET first == CHOOSE r \in records : \A q \in records : r.id <= q.id
         IN  <<first>> \o ByKey(records \ {first})

\* getAllFromIndex ignoring the key asked for
sessionsOfDevice_all(store, deviceId) == ByKey(store)

\* db.getAllFromIndex(SESSIONS_STORE, 'by-deviceId', deviceId)
sessionsOfDevice(store, deviceId) == ByKey({r \in store : r.deviceId = deviceId})

\* db.getAllFromIndex(MESSAGES_STORE, 'by-sessionId', sessionId)
messagesOfSession(store, sessionId) == SelectSeq(store, LAMBDA m : m.sessionId = sessionId)

RECURSIVE sortDescending(_)
\* a sort that leaves the list as it is
sortDescending_unsorted(list) == list

\* sort((a, b) => b.timestamp - a.timestamp); Array.prototype.sort is stable
sortDescending(list) ==
    IF list = <<>> THEN <<>>
    ELSE LET sorted == sortDescending(SubSeq(list, 1, Len(list) - 1))
             x == list[Len(list)]
             k == Cardinality({i \in 1..Len(sorted) : sorted[i].timestamp >= x.timestamp})
         IN  SubSeq(sorted, 1, k) \o <<x>> \o SubSeq(sorted, k + 1, Len(sorted))

RECURSIVE sortAscending(_)
\* sort((a, b) => a.timestamp - b.timestamp)
sortAscending(list) ==
    IF list = <<>> THEN <<>>
    ELSE LET sorted == sortAscending(SubSeq(list, 1, Len(list) - 1))
             x == list[Len(list)]
             k == Cardinality({i \in 1..Len(sorted) : sorted[i].timestamp <= x.timestamp})
         IN  SubSeq(sorted, 1, k) \o <<x>> \o SubSeq(sorted, k + 1, Len(sorted))

\* getSessions(deviceId) on the store as it is
getSessions(store, deviceId) == sortDescending(sessionsOfDevice(store, deviceId))

\* getMessages(sessionId) on the store as it is
getMessages(store, sessionId) == sortAscending(messagesOfSession(store, sessionId))

\* getDeviceId() is called
GetDeviceId ==
    /\ Len(deviceIds) < MaxIdCalls
    /\ \E uuid \in DeviceIds :
          LET r == getDeviceId(localStorageItem, uuid)
          IN  /\ localStorageItem' = r.item
              /\ deviceIds' = Append(deviceIds, r.returned)
              /\ generated' = generated + (IF r.generated THEN 1 ELSE 0)
    /\ UNCHANGED <<sessionsStore, messagesStore, uuids, saved, sessionsReturned>>
    /\ UNCHANGED notDb

\* the user clears the site's local storage; IndexedDB is kept
ClearLocalStorage ==
    /\ localStorageItem # Null
    /\ localStorageItem' = Null
    /\ deviceIds' = <<>>
    /\ generated' = 0
    /\ UNCHANGED <<sessionsStore, messagesStore, uuids, saved, sessionsReturned>>
    /\ UNCHANGED notDb

\* saveNewSession(session) with a session as handleSendMessage builds it: a
\* new UUID, the stored device identifier, a reading of the clock; the put
\* commits and the promise resolves, or it fails and the promise rejects
SaveNewSession ==
    /\ localStorageItem # Null
    /\ \E id \in SessionIds \ uuids, ts \in Timestamps, ok \in BOOLEAN :
          LET session == [id |-> id, deviceId |-> localStorageItem.value,
                          title |-> "New Chat", timestamp |-> ts]
          IN  /\ uuids' = uuids \cup {id}
              /\ sessionsStore' = IF ok THEN dbPut(sessionsStore, session) ELSE sessionsStore
              /\ saved' = IF ok THEN saved \cup {session} ELSE saved
    /\ UNCHANGED <<localStorageItem, messagesStore, sessionsReturned, deviceIds, generated>>
    /\ UNCHANGED notDb

\* getSessions(deviceId) resolves
GetSessions ==
    /\ \E deviceId \in DeviceIds :
          sessionsReturned' = [deviceId |-> deviceId,
                               sessions |-> getSessions(sessionsStore, deviceId),
                               savedBefore |-> saved]
    /\ UNCHANGED <<localStorageItem, sessionsStore, messagesStore, uuids, saved,
                   deviceIds, generated>>
    /\ UNCHANGED notDb

InitDb ==
    DbIdle /\ EncoderIdle /\ TTSIdle /\ ParIdle /\ ChatIdle /\ ToolsIdle /\ MapsIdle

NextDb == GetDeviceId \/ ClearLocalStorage \/ SaveNewSession \/ GetSessions

SpecDb == InitDb /\ [][NextDb]_vars

\* the elements of a list
Range(list) == {list[i] : i \in 1..Len(list)}

\* C16: getSessions(deviceId) returns exactly the sessions saved so far whose
\* deviceId is the argument, each once: none of another device, none missing.
C16_SessionsOfDevice ==
    sessionsReturned # Null =>
        /\ Range(sessionsReturned.sessions)
              = {r \in sessionsReturned.savedBefore : r.deviceId = sessionsReturned.deviceId}
        /\ Cardinality(Range(sessionsReturned.sessions)) = Len(sessionsReturned.sessions)

\* sessions of both devices are saved, and the query returns two of one device
C16_Witness ==
    /\ sessionsReturned # Null
    /\ Len(sessionsReturned.sessions) = 2
    /\ \E r \in sessionsReturned.savedBefore : r.deviceId # sessionsReturned.deviceId

\* C18: getDeviceId generates an identifier only when none is stored; every
\* call since local storage was last cleared returned the stored identifier.
C18_StableDeviceId ==
    /\ generated <= 1
    /\ deviceIds # <<>> =>
          /\ localStorageItem # Null
          /\ \A i \in 1..Len(deviceIds) : deviceIds[i] = localStorageItem.value

C18_Witness == Len(deviceIds) = MaxIdCalls /\ generated = 1 /\ saved # {}

-----------------------------------------------------------------------------
(* ChatBot.  handleSendMessage is cut at its awaits; the call in flight is   *)
(* `send`, and send.pc names the promise it waits for.  A write to a store   *)
(* commits in the step in which its promise resolves.  One ChatBot is        *)
(* mounted, on the first visit of the device; the clock never runs           *)
(* backwards.  handleSelectSession is one step, taken when getMessages       *)
(* resolves.                                                                 *)

\* what the user types: blank, or a message
ChatInputs == {<<" ">>, <<"a">>}

\* response.text of chat.sendMessage
Replies == {<<"b">>}

\* the UUIDs crypto.randomUUID draws from for the sessions of the chat: one a send
ChatSessionIds == 1..MaxSends

\* the text shown for a failed send
Placeholder == <<"Sorry, something went wrong. Please try again.">>

\* the title generateChatTitle resolves with; it never rejects
generateChatTitle(input) == "New Chat"

\* ai.chats.create(...)
NewChatInstance == [kind |-> "chat"]

\* deviceId.current: the identifier getDeviceId returned at mount
deviceIdCurrent == localStorageItem.value

ChatMessage(role, txt) == [role |-> role, text |-> txt]

\* the HistoryMessage of the user's message of send n
userHistoryMessage(sessionId, content, clock, n) ==
    [sessionId |-> sessionId, role |-> "user", content |-> content,
     timestamp |-> clock, send |-> n]

\* the HistoryMessage of the model's reply to send n
modelHistoryMessage(sessionId, content, clock, n) ==
    [sessionId |-> sessionId, role |-> "model", content |-> content,
     timestamp |-> clock + 1, send |-> n]

\* the catch block and the finally block; storage tells a storage call failed
Caught(storage) ==
    /\ messages' = Append(messages, ChatMessage("model", Placeholder))
    /\ chatIsLoading' = FALSE
    /\ send' = IdleSend
    /\ accepted' = [accepted EXCEPT ![send.n].done = TRUE,
                                    ![send.n].storageFailed = storage]

\* time passes
Tick ==
    /\ now < MaxClock
    /\ now' = now + 1
    /\ UNCHANGED <<chat, messages, userInput, chatIsLoading, sessions,
                   activeSessionId, send, load, accepted>>
    /\ UNCHANGED <<dbVars, notChat>>

\* the user types; the input is disabled while a send is in flight
SetUserInput ==
    /\ chat # Null
    /\ ~chatIsLoading
    /\ \E t \in ChatInputs : userInput' = t
    /\ UNCHANGED <<now, chat, messages, chatIsLoading, sessions,
                   activeSessionId, send, load, accepted>>
    /\ UNCHANGED <<dbVars, notChat>>

\* handleSendMessage up to its first await: generateChatTitle for a new
\* chat, saveMessage of the user's message otherwise
HandleSendMessage ==
    /\ ~(trim(userInput) = <<>> \/ chatIsLoading \/ chat = Null)
    /\ Len(accepted) < MaxSends
    /\ activeSessionId = NoSession => uuids # ChatSessionIds
    /\ messages' = Append(messages, ChatMessage("user", userInput))
    /\ chatIsLoading' = TRUE
    /\ userInput' = <<>>
    /\ LET n == Len(accepted) + 1
       IN  /\ send' = IF activeSessionId = NoSession
                      THEN [IdleSend EXCEPT !.pc = "title", !.n = n,
                                            !.currentInput = userInput]
                      ELSE [IdleSend EXCEPT !.pc = "saveUser", !.n = n,
                                            !.currentInput = userInput,
                                            !.currentSessionId = activeSessionId,
                                            !.message = userHistoryMessage(
                                                activeSessionId, userInput, now, n)]
           /\ accepted' = Append(accepted,
                  [activeAtSend |-> activeSessionId, created |-> NoSession,
                   content |-> userInput, replied |-> FALSE,
                   storageFailed |-> FALSE, done |-> FALSE])
    /\ UNCHANGED <<now, chat, sessions, activeSessionId, load>>
    /\ UNCHANGED <<dbVars, notChat>>

\* generateChatTitle resolves: the new session is built and saveNewSession called
TitleResolves ==
    /\ send.pc = "title"
    /\ \E id \in ChatSessionIds \ uuids :
          /\ uuids' = uuids \cup {id}
          /\ send' = [send EXCEPT !.pc = "saveSession",
                         !.newSession = [id |-> id, deviceId |-> deviceIdCurrent,
                                         title |-> generateChatTitle(send.currentInput),
                                         timestamp |-> now]]
          /\ accepted' = [accepted EXCEPT ![send.n].created = id]
    /\ UNCHANGED <<now, chat, messages, userInput, chatIsLoading, sessions,
                   activeSessionId, load>>
    /\ UNCHANGED <<localStorageItem, sessionsStore, messagesStore, saved,
                   sessionsReturned, deviceIds, generated>>
    /\ UNCHANGED notChat

\* saveNewSession settles: the session becomes the active one and heads the
\* list, and saveMessage is called with the user's message; or the catch block
SaveNewSessionSettles ==
    /\ send.pc = "saveSession"
    /\ \/ /\ sessionsStore' = dbPut(sessionsStore, send.newSession)
          /\ saved' = saved \cup {send.newSession}
          /\ activeSessionId' = send.newSession.id
          /\ sessions' = <<send.newSession>> \o sessions
          /\ send' = [send EXCEPT !.pc = "saveUser",
                         !.currentSessionId = send.newSession.id,
                         !.message = userHistoryMessage(send.newSession.id,
                                         send.currentInput, now, send.n)]
          /\ UNCHANGED <<messages, chatIsLoading, accepted>>
       \/ /\ Caught(TRUE)
          /\ UNCHANGED <<sessionsStore, saved, activeSessionId, sessions>>
    /\ UNCHANGED <<now, chat, userInput, load>>
    /\ UNCHANGED <<localStorageItem, messagesStore, uuids, sessionsReturned,
                   deviceIds, generated>>
    /\ UNCHANGED notChat

\* saveMessage of the user's message settles: the message goes to the model
SaveUserMessageSettles ==
    /\ send.pc = "saveUser"
    /\ \/ /\ messagesStore' = dbAdd(messagesStore, send.message)
          /\ send' = [send EXCEPT !.pc = "model", !.message = Null]
          /\ UNCHANGED <<messages, chatIsLoading, accepted>>
       \/ /\ Caught(TRUE)
          /\ UNCHANGED messagesStore
    /\ UNCHANGED <<now, chat, userInput, sessions, activeSessionId, load>>
    /\ UNCHANGED <<localStorageItem, sessionsStore, uuids, saved, sessionsReturned,
                   deviceIds, generated>>
    /\ UNCHANGED notChat

\* chat.sendMessage settles: the reply is shown and saveMessage called with it
SendMessageSettles ==
    /\ send.pc = "model"
    /\ \/ \E txt \in Replies :
             /\ messages' = Append(messages, ChatMessage("model", txt))
             /\ send' = [send EXCEPT !.pc = "saveReply",
                            !.message = modelHistoryMessage(send.currentSessionId,
                                            txt, now, send.n)]
             /\ accepted' = [accepted EXCEPT ![send.n].replied = TRUE]
             /\ UNCHANGED chatIsLoading
       \/ Caught(accepted[send.n].storageFailed)
    /\ UNCHANGED <<now, chat, userInput, sessions, activeSessionId, load>>
    /\ UNCHANGED <<dbVars, notChat>>

\* saveMessage of the reply settles; the finally block
SaveModelMessageSettles ==
    /\ send.pc = "saveReply"
    /\ \/ /\ messagesStore' = dbAdd(messagesStore, send.message)
          /\ chatIsLoading' = FALSE
          /\ send' = IdleSend
          /\ accepted' = [accepted EXCEPT ![send.n].done = TRUE]
          /\ UNCHANGED messages
       \/ /\ Caught(TRUE)
          /\ UNCHANGED messagesStore
    /\ UNCHANGED <<now, chat, userInput, sessions, activeSessionId, load>>
    /\ UNCHANGED <<localStorageItem, sessionsStore, uuids, saved, sessionsReturned,
                   deviceIds, generated>>
    /\ UNCHANGED notChat

\* loadSessions: getSessions reads the store
LoadSessionsReads ==
    /\ load.pc = "reading"
    /\ load' = [pc |-> "read", savedSessions |-> getSessions(sessionsStore, deviceIdCurrent)]
    /\ UNCHANGED <<now, chat, messages, userInput, chatIsLoading, sessions,
                   activeSessionId, send, accepted>>
    /\ UNCHANGED <<dbVars, notChat>>

\* loadSessions after its await: setSessions(savedSessions)
LoadSessionsResolves ==
    /\ load.pc = "read"
    /\ sessions' = load.savedSessions
    /\ load' = [pc |-> "done", savedSessions |-> <<>>]
    /\ UNCHANGED <<now, chat, messages, userInput, chatIsLoading,
                   activeSessionId, send, accepted>>
    /\ UNCHANGED <<dbVars, notChat>>

\* handleNewChat; the button stays enabled while a send is in flight, and
\* the conversation shown is then no longer the one of that send
HandleNewChat ==
    /\ chat # Null
    /\ chat' = NewChatInstance
    /\ messages' = <<>>
    /\ activeSessionId' = NoSession
    /\ send' = IF send.pc = "idle" THEN send ELSE [send EXCEPT !.displayed = FALSE]
    /\ UNCHANGED <<now, userInput, chatIsLoading, sessions, load, accepted>>
    /\ UNCHANGED <<dbVars, notChat>>

\* handleSelectSession(sessionId) for a session of the list: getMessages
\* resolves, the history is shown and the session is the active one; the
\* buttons stay enabled while a send is in flight, and the conversation
\* shown is no longer the one of that send when the session is another
HandleSelectSession ==
    /\ \E i \in 1..Len(sessions) :
          LET sessionId == sessions[i].id
              historicalMessages == getMessages(messagesStore, sessionId)
          IN  /\ messages' = [k \in 1..Len(historicalMessages) |->
                                 ChatMessage(historicalMessages[k].role,
                                             historicalMessages[k].content)]
              /\ activeSessionId' = sessionId
              /\ send' = IF send.pc = "idle" \/ sessionId = send.currentSessionId
                         THEN send ELSE [send EXCEPT !.displayed = FALSE]
    /\ chat' = NewChatInstance
    /\ UNCHANGED <<now, userInput, chatIsLoading, sessions, load, accepted>>
    /\ UNCHANGED <<dbVars, notChat>>

\* the first visit: nothing stored, getDeviceId generates the identifier;
\* ChatBot is mounted and its effect has run: loadSessions waits for
\* getSessions, handleNewChat has set the chat
InitChat ==
    /\ \E uuid \in {"device-A"} :
          LET r == getDeviceId(Null, uuid)
          IN  /\ localStorageItem = r.item
              /\ deviceIds = <<r.returned>>
    /\ generated = 1
    /\ sessionsStore = {}
    /\ messagesStore = <<>>
    /\ uuids = {}
    /\ saved = {}
    /\ sessionsReturned = Null
    /\ now = 0
    /\ chat = NewChatInstance
    /\ messages = <<>>
    /\ userInput = <<>>
    /\ chatIsLoading = FALSE
    /\ sessions = <<>>
    /\ activeSessionId = NoSession
    /\ send = IdleSend
    /\ load = [pc |-> "reading", savedSessions |-> <<>>]
    /\ accepted = <<>>
    /\ EncoderIdle /\ TTSIdle /\ ParIdle /\ ToolsIdle /\ MapsIdle

NextChat ==
    \/ Tick
    \/ SetUserInput
    \/ HandleSendMessage
    \/ TitleResolves
    \/ SaveNewSessionSettles
    \/ SaveUserMessageSettles
    \/ SendMessageSettles
    \/ SaveModelMessageSettles
    \/ LoadSessionsReads
    \/ LoadSessionsResolves
    \/ HandleNewChat
    \/ HandleSelectSession

SpecChat == InitChat /\ [][NextChat]_vars

\* the ids of the sessions in the store
StoredSessionIds == {r.id : r \in sessionsStore}

\* the keys of the stored messages of send n in a role
StoredOf(n, role) ==
    {i \in 1..Len(messagesStore) :
        messagesStore[i].send = n /\ messagesStore[i].role = role}

\* C13: handleSendMessage persists in a fixed order: the session of a new chat
\* is in the store before the user's message is saved, the user's message is
\* in the store before the request to the model is out, the reply is stored
\* only once received; so no stored message has a session id absent from the
\* sessions store.
C13_PersistenceOrder ==
    /\ send.pc \in {"saveUser", "model", "saveReply"} =>
          send.currentSessionId \in StoredSessionIds
    /\ send.pc \in {"model", "saveReply"} => StoredOf(send.n, "user") # {}
    /\ send.pc \in {"title", "saveSession", "saveUser", "model"} =>
          StoredOf(send.n, "model") = {}
    /\ \A n \in 1..Len(accepted) : StoredOf(n, "model") # {} => accepted[n].replied
    /\ \A i \in 1..Len(messagesStore) : messagesStore[i].sessionId \in StoredSessionIds

\* the reply to the first message of a new chat is stored
C13_Witness ==
    \E n \in 1..Len(accepted) :
        accepted[n].created # NoSession /\ StoredOf(n, "model") # {}

\* the messages of a list are in the order exchanged: by send, and within a
\* send the user's message before the reply
InOrderExchanged(list) ==
    \A i, j \in 1..Len(list) :
        i < j => \/ list[i].send < list[j].send
                 \/ list[i].send = list[j].send /\ list[i].role = "user"
                                                /\ list[j].role = "model"

\* C14: for every session getMessages returns the stored messages in the order
\* exchanged: each reply after the message it answers and before any later
\* user message, whatever the clock read.
C14_ExchangeOrder ==
    \A sessionId \in SessionIds : InOrderExchanged(getMessages(messagesStore, sessionId))

\* C15: the user's message of an accepted send and the reply received for it
\* are each stored at most once, and exactly once when the send has ended and
\* no storage call of it failed; both under the session active at the send or,
\* for a new chat, the session the send created; the placeholder is not stored.
C15_StoredOnce ==
    /\ \A n \in 1..Len(accepted) :
          LET a == accepted[n]
              session == IF a.activeAtSend # NoSession THEN a.activeAtSend ELSE a.created
          IN  /\ Cardinality(StoredOf(n, "user")) <= 1
              /\ Cardinality(StoredOf(n, "model")) <= 1
              /\ a.done /\ ~a.storageFailed =>
                    /\ Cardinality(StoredOf(n, "user")) = 1
                    /\ a.replied => Cardinality(StoredOf(n, "model")) = 1
              /\ \A i \in StoredOf(n, "user") \cup StoredOf(n, "model") :
                    /\ session # NoSession
                    /\ messagesStore[i].sessionId = session
              /\ \A i \in StoredOf(n, "user") : messagesStore[i].content = a.content
    /\ \A i \in 1..Len(messagesStore) :
          /\ messagesStore[i].send \in 1..Len(accepted)
          /\ messagesStore[i].content # Placeholder

\* a send in a session that existed has ended, its message and its reply
\* stored; another send has failed and shows the placeholder
C15_Witness ==
    /\ \E n \in 1..Len(accepted) :
          /\ accepted[n].activeAtSend # NoSession
          /\ accepted[n].done /\ ~accepted[n].storageFailed /\ accepted[n].replied
          /\ StoredOf(n, "user") # {} /\ StoredOf(n, "model") # {}
    /\ \E k \in 1..Len(messages) : messages[k].text = Placeholder

-----------------------------------------------------------------------------
(* App mounts one tool at a time; a tool that is left loses its state, and   *)
(* what its handlers in flight set afterwards is lost with it.  A string is  *)
(* the sequence of its words; a fixed message of the program is one word.    *)
(* The state of a component is one record, its fields named as the state     *)
(* variables of the component; the aspect ratio, the rotating loading        *)
(* message and the overlay geometry are left out.                            *)

Tools == {"analyze", "generate", "video"}

NotFoundPhrase == <<"Requested", "entity", "was", "not", "found">>
BilledPhrase == <<"API", "is", "only", "accessible", "to", "billed", "users">>
ApiKeyError == <<"API Key error. Please re-select your API key and try again.">>

\* String.prototype.includes
includes(str, sub) ==
    \E i \in 0..(Len(str) - Len(sub)) : SubSeq(str, i + 1, i + Len(sub)) = sub

\* new Error(message)
Error(message) == [kind |-> "Error", message |-> message]

\* a rejection value with no message property: the ProgressEvent of
\* FileReader.onerror
ErrorEvent == [kind |-> "ProgressEvent"]

\* messages of the errors of the API: none, some other failure, the two
\* the components look for (inside a longer text), and a near miss
ServiceMessages ==
    { <<>>,
      <<"quota", "exceeded">>,
      <<"404:">> \o NotFoundPhrase \o <<".">>,
      BilledPhrase,
      <<"Requested", "entity", "was", "found">> }

\* what the prompt box may hold once typed in
Prompts == {<<" ">>, <<"a">>}

\* App: another tool is chosen; it is mounted anew
SwitchTool ==
    /\ \E tool \in Tools \ {activeTool} : activeTool' = tool
    /\ imageGeneration' = ImageGenerationMounted
    /\ videoGeneration' = VideoGenerationMounted
    /\ imageAnalysis' = ImageAnalysisMounted
    /\ UNCHANGED notTools

(* ImageGeneration *)

\* what imageAI.models.generateImages does: a response with an image, a
\* response with none, or an error
GenerateImagesOutcomes ==
    {[kind |-> "response", images |-> n] : n \in {0, 1}}
        \cup {[kind |-> "throw", error |-> Error(m)] : m \in ServiceMessages}
        \cup {[kind |-> "throw", error |-> ErrorEvent]}

\* generateImage(prompt, aspectRatio), given what the API does
generateImage(api) ==
    IF api.kind = "response"
    THEN [kind |-> "return",
          value |-> IF api.images > 0 THEN [kind |-> "dataURL"] ELSE Null]
    ELSE IF api.error.kind = "Error"
    THEN [kind |-> "throw", error |-> Error(api.error.message)]
    ELSE [kind |-> "throw",
          error |-> Error(<<"An unknown error occurred during image generation.">>)]

\* a catch block that looks for one of the two phrases only
imageCatch_notFoundOnly(err, apiKeySelected) ==
    IF includes(err.message, NotFoundPhrase)
    THEN [error |-> ApiKeyError, apiKeySelected |-> FALSE]
    ELSE IF err.message # <<>>
    THEN [error |-> err.message, apiKeySelected |-> apiKeySelected]
    ELSE [error |-> <<"Failed to generate image. Please try a different prompt.">>,
          apiKeySelected |-> apiKeySelected]

\* the catch block of ImageGeneration.handleSubmit: the error text it sets
\* and apiKeySelected after it
imageCatch(err, apiKeySelected) ==
    IF includes(err.message, BilledPhrase) \/ includes(err.message, NotFoundPhrase)
    THEN [error |-> ApiKeyError, apiKeySelected |-> FALSE]
    ELSE IF err.message # <<>>
    THEN [error |-> err.message, apiKeySelected |-> apiKeySelected]
    ELSE [error |-> <<"Failed to generate image. Please try a different prompt.">>,
          apiKeySelected |-> apiKeySelected]

\* checkApiKey after its await
ImageCheckApiKeySettles ==
    /\ activeTool = "generate"
    /\ imageGeneration.checkApiKey = "pending"
    /\ \E has \in BOOLEAN :
          imageGeneration' = [imageGeneration EXCEPT !.apiKeySelected = has,
                                                    !.checkApiKey = "done"]
    /\ UNCHANGED <<activeTool, videoGeneration, imageAnalysis>>
    /\ UNCHANGED notTools

\* handleSelectKey on the key screen, openSelectKey resolved
ImageHandleSelectKey ==
    /\ activeTool = "generate"
    /\ ~imageGeneration.apiKeySelected
    /\ imageGeneration' = [imageGeneration EXCEPT !.apiKeySelected = TRUE]
    /\ UNCHANGED <<activeTool, videoGeneration, imageAnalysis>>
    /\ UNCHANGED notTools

\* the user types a prompt
ImageSetPrompt ==
    /\ activeTool = "generate"
    /\ imageGeneration.apiKeySelected
    /\ ~imageGeneration.isLoading
    /\ \E p \in Prompts : imageGeneration' = [imageGeneration EXCEPT !.prompt = p]
    /\ UNCHANGED <<activeTool, videoGeneration, imageAnalysis>>
    /\ UNCHANGED notTools

\* handleSubmit up to its await
ImageHandleSubmit ==
    /\ activeTool = "generate"
    /\ imageGeneration.apiKeySelected
    /\ ~(trim(imageGeneration.prompt) = <<>> \/ imageGeneration.isLoading)
    /\ imageGeneration' = [imageGeneration EXCEPT !.isLoading = TRUE,
                                                  !.error = <<>>,
                                                  !.generatedImage = Null,
                                                  !.handleSubmit = "generateImage",
                                                  !.caught = Null]
    /\ UNCHANGED <<activeTool, videoGeneration, imageAnalysis>>
    /\ UNCHANGED notTools

\* handleSubmit after its await: the image is shown, or the catch block runs;
\* caught keeps the error caught and apiKeySelected as it was before
ImageGenerateImageSettles ==
    /\ activeTool = "generate"
    /\ imageGeneration.handleSubmit = "generateImage"
    /\ \E api \in GenerateImagesOutcomes :
          LET imageUrl == generateImage(api)
              err == IF imageUrl.kind = "throw" THEN imageUrl.error
                     ELSE Error(<<"The model did not return an image. Please try a different prompt.">>)
              after == imageCatch(err, imageGeneration.apiKeySelected)
          IN  IF imageUrl.kind = "return" /\ imageUrl.value # Null
              THEN imageGeneration' = [imageGeneration EXCEPT
                                          !.generatedImage = imageUrl.value,
                                          !.isLoading = FALSE,
                                          !.handleSubmit = "idle"]
              ELSE imageGeneration' = [imageGeneration EXCEPT
                                          !.error = after.error,
                                          !.apiKeySelected = after.apiKeySelected,
                                          !.isLoading = FALSE,
                                          !.handleSubmit = "idle",
                                          !.caught = [error |-> err,
                                                      apiKeySelected |-> imageGeneration.apiKeySelected]]
    /\ UNCHANGED <<activeTool, videoGeneration, imageAnalysis>>
    /\ UNCHANGED notTools

\* the alert is closed
ImageCloseAlert ==
    /\ activeTool = "generate"
    /\ imageGeneration.apiKeySelected
    /\ imageGeneration.error # <<>>
    /\ imageGeneration' = [imageGeneration EXCEPT !.error = <<>>]
    /\ UNCHANGED <<activeTool, videoGeneration, imageAnalysis>>
    /\ UNCHANGED notTools

(* VideoGeneration *)

\* the sizes of the files the user may choose: an empty file, one of exactly
\* 4 MiB, one a byte larger
FileSizes == {0, 4 * 1024 * 1024, 4 * 1024 * 1024 + 1}

File(size) == [kind |-> "File", size |-> size]

Files == {File(size) : size \in FileSizes}

\* the generateVideos operation as the API reports it
Operations == [done : BOOLEAN, downloadLink : BOOLEAN]

\* the test of handleFileChange of VideoGeneration
videoFileTooLarge(file) == file.size > 4 * 1024 * 1024

\* the catch block of VideoGeneration.handleSubmit; reading the message of a
\* value that has none throws out of the block before setError
videoCatch(err, errorShown, apiKeySelected) ==
    IF err.kind # "Error"
    THEN [error |-> errorShown, apiKeySelected |-> apiKeySelected]
    ELSE IF includes(err.message, NotFoundPhrase)
    THEN [error |-> ApiKeyError, apiKeySelected |-> FALSE]
    ELSE IF err.message # <<>>
    THEN [error |-> err.message, apiKeySelected |-> apiKeySelected]
    ELSE [error |-> <<"Failed to generate video. Please try again.">>,
          apiKeySelected |-> apiKeySelected]

\* the state after the catch block for the error thrown, without a finally
\* block
VideoCaught_noFinally(err) ==
    LET after == videoCatch(err, videoGeneration.error, videoGeneration.apiKeySelected)
    IN  [videoGeneration EXCEPT
            !.error = after.error,
            !.apiKeySelected = after.apiKeySelected,
            !.handleSubmit = "idle",
            !.caught = [error |-> err, apiKeySelected |-> videoGeneration.apiKeySelected]]

\* the state after the catch and finally blocks for the error thrown
VideoCaught(err) ==
    LET after == videoCatch(err, videoGeneration.error, videoGeneration.apiKeySelected)
    IN  [videoGeneration EXCEPT
            !.error = after.error,
            !.apiKeySelected = after.apiKeySelected,
            !.isLoading = FALSE,
            !.handleSubmit = "idle",
            !.caught = [error |-> err, apiKeySelected |-> videoGeneration.apiKeySelected]]

\* handleSubmit after an operation is assigned: wait and ask again, fetch
\* the video, or fail for want of a link
VideoAfterOperation(operation, polls) ==
    IF ~operation.done
    THEN [videoGeneration EXCEPT !.handleSubmit = "setTimeout",
                                 !.operation = operation, !.polls = polls]
    ELSE IF operation.downloadLink
    THEN [videoGeneration EXCEPT !.handleSubmit = "fetch",
                                 !.operation = operation, !.polls = polls]
    ELSE [VideoCaught(Error(<<"Video generation completed, but no download link was provided.">>))
            EXCEPT !.operation = operation, !.polls = polls]

VideoCheckApiKeySettles ==
    /\ activeTool = "video"
    /\ videoGeneration.checkApiKey = "pending"
    /\ \E has \in BOOLEAN :
          videoGeneration' = [videoGeneration EXCEPT !.apiKeySelected = has,
                                                    !.checkApiKey = "done"]
    /\ UNCHANGED <<activeTool, imageGeneration, imageAnalysis>>
    /\ UNCHANGED notTools

VideoHandleSelectKey ==
    /\ activeTool = "video"
    /\ ~videoGeneration.apiKeySelected
    /\ videoGeneration' = [videoGeneration EXCEPT !.apiKeySelected = TRUE]
    /\ UNCHANGED <<activeTool, imageGeneration, imageAnalysis>>
    /\ UNCHANGED notTools

VideoSetPrompt ==
    /\ activeTool = "video"
    /\ videoGeneration.apiKeySelected
    /\ ~videoGeneration.isLoading
    /\ \E p \in Prompts : videoGeneration' = [videoGeneration EXCEPT !.prompt = p]
    /\ UNCHANGED <<activeTool, imageGeneration, imageAnalysis>>
    /\ UNCHANGED notTools

\* handleFileChange: the file chosen is refused or becomes the image file;
\* chosen keeps the file of the last choice, flip telling one choice from the next
VideoHandleFileChange ==
    /\ activeTool = "video"
    /\ videoGeneration.apiKeySelected
    /\ \E file \in Files :
          LET chosen == [file |-> file,
                         flip |-> IF videoGeneration.chosen = Null THEN TRUE
                                  ELSE ~videoGeneration.chosen.flip]
          IN  IF videoFileTooLarge(file)
              THEN videoGeneration' = [videoGeneration EXCEPT
                                          !.error = <<"File size exceeds 4MB.">>,
                                          !.chosen = chosen]
              ELSE videoGeneration' = [videoGeneration EXCEPT
                                          !.imageFile = file,
                                          !.imagePreview = [kind |-> "objectURL", of |-> file],
                                          !.error = <<>>,
                                          !.chosen = chosen]
    /\ UNCHANGED <<activeTool, imageGeneration, imageAnalysis>>
    /\ UNCHANGED notTools

\* the Remove button of the preview
VideoRemoveFile ==
    /\ activeTool = "video"
    /\ videoGeneration.apiKeySelected
    /\ videoGeneration.imagePreview # Null
    /\ videoGeneration' = [videoGeneration EXCEPT !.imagePreview = Null,
                                                  !.imageFile = Null]
    /\ UNCHANGED <<activeTool, imageGeneration, imageAnalysis>>
    /\ UNCHANGED notTools

\* handleSubmit up to its first await
VideoHandleSubmit ==
    /\ activeTool = "video"
    /\ videoGeneration.apiKeySelected
    /\ ~(trim(videoGeneration.prompt) = <<>> \/ videoGeneration.isLoading)
    /\ videoGeneration' = [videoGeneration EXCEPT
            !.isLoading = TRUE,
            !.error = <<>>,
            !.generatedVideoUrl = Null,
            !.handleSubmit = IF videoGeneration.imageFile # Null
                             THEN "fileToGenerativePart" ELSE "generateVideo",
            !.closure = [imageFile |-> videoGeneration.imageFile],
            !.operation = Null,
            !.polls = 0,
            !.caught = Null]
    /\ UNCHANGED <<activeTool, imageGeneration, imageAnalysis>>
    /\ UNCHANGED notTools

\* fileToGenerativePart settles for the file the handler was created with:
\* the file is read, or it has no content, or the reader reports an error
VideoFileRead ==
    /\ activeTool = "video"
    /\ videoGeneration.handleSubmit = "fileToGenerativePart"
    /\ \/ /\ videoGeneration.closure.imageFile.size > 0
          /\ videoGeneration' = [videoGeneration EXCEPT !.handleSubmit = "generateVideo"]
       \/ /\ videoGeneration.closure.imageFile.size = 0
          /\ videoGeneration' = VideoCaught(Error(<<"Failed to read file.">>))
       \/ videoGeneration' = VideoCaught(ErrorEvent)
    /\ UNCHANGED <<activeTool, imageGeneration, imageAnalysis>>
    /\ UNCHANGED notTools

\* generateVideo settles
VideoGenerateVideoSettles ==
    /\ activeTool = "video"
    /\ videoGeneration.handleSubmit = "generateVideo"
    /\ \/ \E operation \in Operations :
             videoGeneration' = VideoAfterOperation(operation, 0)
       \/ \E m \in ServiceMessages : videoGeneration' = VideoCaught(Error(m))
    /\ UNCHANGED <<activeTool, imageGeneration, imageAnalysis>>
    /\ UNCHANGED notTools

\* the 5000 ms pause of the polling loop ends
VideoTimeout ==
    /\ activeTool = "video"
    /\ videoGeneration.handleSubmit = "setTimeout"
    /\ videoGeneration' = [videoGeneration EXCEPT !.handleSubmit = "checkVideoOperationStatus"]
    /\ UNCHANGED <<activeTool, imageGeneration, imageAnalysis>>
    /\ UNCHANGED notTools

\* checkVideoOperationStatus settles; polls counts the checks up to MaxPolls
VideoCheckSettles ==
    /\ activeTool = "video"
    /\ videoGeneration.handleSubmit = "checkVideoOperationStatus"
    /\ \/ \E operation \in Operations :
             videoGeneration' =
                 VideoAfterOperation(operation,
                                     IF videoGeneration.polls < MaxPolls
                                     THEN videoGeneration.polls + 1 ELSE MaxPolls)
       \/ \E m \in ServiceMessages : videoGeneration' = VideoCaught(Error(m))
    /\ UNCHANGED <<activeTool, imageGeneration, imageAnalysis>>
    /\ UNCHANGED notTools

\* fetch of the download link settles
VideoFetchSettles ==
    /\ activeTool = "video"
    /\ videoGeneration.handleSubmit = "fetch"
    /\ \/ videoGeneration' = [videoGeneration EXCEPT !.handleSubmit = "blob"]
       \/ \E statusText \in {<<>>, <<"Not", "Found">>} :
             videoGeneration' = VideoCaught(Error(<<"Failed to fetch video:">> \o statusText))
       \/ videoGeneration' = VideoCaught(Error(<<"Failed to fetch">>))
    /\ UNCHANGED <<activeTool, imageGeneration, imageAnalysis>>
    /\ UNCHANGED notTools

\* response.blob() settles: the video is shown
VideoBlobSettles ==
    /\ activeTool = "video"
    /\ videoGeneration.handleSubmit = "blob"
    /\ \/ videoGeneration' = [videoGeneration EXCEPT
                                  !.generatedVideoUrl = [kind |-> "objectURL"],
                                  !.isLoading = FALSE,
                                  !.handleSubmit = "idle"]
       \/ videoGeneration' = VideoCaught(Error(<<"Failed to fetch">>))
    /\ UNCHANGED <<activeTool, imageGeneration, imageAnalysis>>
    /\ UNCHANGED notTools

VideoCloseAlert ==
    /\ activeTool = "video"
    /\ videoGeneration.apiKeySelected
    /\ videoGeneration.error # <<>>
    /\ videoGeneration' = [videoGeneration EXCEPT !.error = <<>>]
    /\ UNCHANGED <<activeTool, imageGeneration, imageAnalysis>>
    /\ UNCHANGED notTools

(* ImageAnalysis *)

\* the test of handleFileChange with the limit itself refused
imageFileTooLarge_atLeast(file) == file.size >= 4 * 1024 * 1024

\* the test of handleFileChange of ImageAnalysis
imageFileTooLarge(file) == file.size > 4 * 1024 * 1024

\* resetState()
resetState(state) ==
    [state EXCEPT !.image = Null, !.file = Null, !.analysis = Null,
                  !.croppedObjectImages = <<>>, !.error = <<>>]

\* what analyzeImage resolves with; it never rejects
AnalysisResponses == [kind : {"analysis"}, detectedObjects : {0, 1}]

\* handleFileChange: the file chosen is refused, or the state is reset, the
\* file selected and its preview asked of a FileReader
AnalysisHandleFileChange ==
    /\ activeTool = "analyze"
    /\ \E selectedFile \in Files :
          LET chosen == [file |-> selectedFile,
                         flip |-> IF imageAnalysis.chosen = Null THEN TRUE
                                  ELSE ~imageAnalysis.chosen.flip]
          IN  IF imageFileTooLarge(selectedFile)
              THEN imageAnalysis' = [imageAnalysis EXCEPT
                      !.error = <<"File size exceeds 4MB. Please choose a smaller image.">>,
                      !.chosen = chosen]
              ELSE /\ Len(imageAnalysis.readers) < MaxReaders
                   /\ imageAnalysis' = [resetState(imageAnalysis) EXCEPT
                          !.file = selectedFile,
                          !.readers = Append(imageAnalysis.readers, selectedFile),
                          !.chosen = chosen]
    /\ UNCHANGED <<activeTool, imageGeneration, videoGeneration>>
    /\ UNCHANGED notTools

\* onloadend of a preview reader: the data URL, or null after a read error
AnalysisPreviewLoaded ==
    /\ activeTool = "analyze"
    /\ \E i \in 1..Len(imageAnalysis.readers), ok \in BOOLEAN :
          imageAnalysis' = [imageAnalysis EXCEPT
              !.image = IF ok THEN [kind |-> "dataURL", of |-> imageAnalysis.readers[i]]
                        ELSE Null,
              !.readers = SubSeq(imageAnalysis.readers, 1, i - 1)
                            \o SubSeq(imageAnalysis.readers, i + 1, Len(imageAnalysis.readers))]
    /\ UNCHANGED <<activeTool, imageGeneration, videoGeneration>>
    /\ UNCHANGED notTools

AnalysisSetPrompt ==
    /\ activeTool = "analyze"
    /\ \E p \in {<<>>, <<"a">>} : imageAnalysis' = [imageAnalysis EXCEPT !.prompt = p]
    /\ UNCHANGED <<activeTool, imageGeneration, videoGeneration>>
    /\ UNCHANGED notTools

\* handleAnalyze up to readAsDataURL; the button needs a file and no analysis
\* in flight
AnalysisHandleAnalyze ==
    /\ activeTool = "analyze"
    /\ ~(imageAnalysis.isLoading \/ imageAnalysis.file = Null)
    /\ IF imageAnalysis.file = Null \/ imageAnalysis.prompt = <<>>
       THEN imageAnalysis' = [imageAnalysis EXCEPT
               !.error = <<"Please upload an image and provide a prompt.">>]
       ELSE imageAnalysis' = [imageAnalysis EXCEPT
               !.isLoading = TRUE,
               !.analysis = Null,
               !.croppedObjectImages = <<>>,
               !.error = <<>>,
               !.handleAnalyze = "readAsDataURL",
               !.closure = [file |-> imageAnalysis.file, image |-> imageAnalysis.image]]
    /\ UNCHANGED <<activeTool, imageGeneration, videoGeneration>>
    /\ UNCHANGED notTools

\* onloadend of the reader of handleAnalyze: analyzeImage is called; or the
\* file has no content; or the read failed, the result is null and the
\* callback throws before setIsLoading(false)
AnalysisFileRead ==
    /\ activeTool = "analyze"
    /\ imageAnalysis.handleAnalyze = "readAsDataURL"
    /\ \/ /\ imageAnalysis.closure.file.size > 0
          /\ imageAnalysis' = [imageAnalysis EXCEPT !.handleAnalyze = "analyzeImage"]
       \/ /\ imageAnalysis.closure.file.size = 0
          /\ imageAnalysis' = [imageAnalysis EXCEPT
                  !.error = <<"Could not read the image file.">>,
                  !.isLoading = FALSE,
                  !.handleAnalyze = "idle",
                  !.closure = Null]
       \/ imageAnalysis' = [imageAnalysis EXCEPT !.handleAnalyze = "idle", !.closure = Null]
    /\ UNCHANGED <<activeTool, imageGeneration, videoGeneration>>
    /\ UNCHANGED notTools

\* analyzeImage resolves: the analysis is shown, the objects cropped from the
\* image the handler was created with
AnalysisAnalyzeImageSettles ==
    /\ activeTool = "analyze"
    /\ imageAnalysis.handleAnalyze = "analyzeImage"
    /\ \E result \in AnalysisResponses :
          imageAnalysis' = [imageAnalysis EXCEPT
              !.analysis = result,
              !.croppedObjectImages =
                  IF imageAnalysis.closure.image # Null /\ result.detectedObjects > 0
                  THEN <<"crop">> ELSE imageAnalysis.croppedObjectImages,
              !.isLoading = FALSE,
              !.handleAnalyze = "idle",
              !.closure = Null]
    /\ UNCHANGED <<activeTool, imageGeneration, videoGeneration>>
    /\ UNCHANGED notTools

\* the Remove button under the preview
AnalysisResetState ==
    /\ activeTool = "analyze"
    /\ imageAnalysis.image # Null
    /\ imageAnalysis' = resetState(imageAnalysis)
    /\ UNCHANGED <<activeTool, imageGeneration, videoGeneration>>
    /\ UNCHANGED notTools

AnalysisCloseAlert ==
    /\ activeTool = "analyze"
    /\ imageAnalysis.error # <<>>
    /\ imageAnalysis' = [imageAnalysis EXCEPT !.error = <<>>]
    /\ UNCHANGED <<activeTool, imageGeneration, videoGeneration>>
    /\ UNCHANGED notTools

\* App starts with ImageAnalysis mounted
InitTools ==
    /\ activeTool = "analyze"
    /\ imageGeneration = ImageGenerationMounted
    /\ videoGeneration = VideoGenerationMounted
    /\ imageAnalysis = ImageAnalysisMounted
    /\ EncoderIdle /\ TTSIdle /\ ParIdle /\ DbIdle /\ ChatIdle /\ MapsIdle

NextTools ==
    \/ SwitchTool
    \/ ImageCheckApiKeySettles
    \/ ImageHandleSelectKey
    \/ ImageSetPrompt
    \/ ImageHandleSubmit
    \/ ImageGenerateImageSettles
    \/ ImageCloseAlert
    \/ VideoCheckApiKeySettles
    \/ VideoHandleSelectKey
    \/ VideoSetPrompt
    \/ VideoHandleFileChange
    \/ VideoRemoveFile
    \/ VideoHandleSubmit
    \/ VideoFileRead
    \/ VideoGenerateVideoSettles
    \/ VideoTimeout
    \/ VideoCheckSettles
    \/ VideoFetchSettles
    \/ VideoBlobSettles
    \/ VideoCloseAlert
    \/ AnalysisHandleFileChange
    \/ AnalysisPreviewLoaded
    \/ AnalysisSetPrompt
    \/ AnalysisHandleAnalyze
    \/ AnalysisFileRead
    \/ AnalysisAnalyzeImageSettles
    \/ AnalysisResetState
    \/ AnalysisCloseAlert

SpecTools == InitTools /\ [][NextTools]_vars

\* a call handleSubmit of VideoGeneration awaits settles: the file reader,
\* generateVideo, the timer, the status check, fetch, blob
VideoAwaitSettles ==
    \/ VideoFileRead
    \/ VideoGenerateVideoSettles
    \/ VideoTimeout
    \/ VideoCheckSettles
    \/ VideoFetchSettles
    \/ VideoBlobSettles

\* a status check reports the operation done, or fails
VideoCheckEnds ==
    VideoCheckSettles /\ videoGeneration'.handleSubmit # "setTimeout"

\* the tools when every call awaited by handleSubmit of VideoGeneration
\* settles and the status checks do not report "not done" for ever
SpecVideo ==
    /\ InitTools
    /\ [][NextTools]_vars
    /\ WF_vars(VideoAwaitSettles)
    /\ SF_vars(VideoCheckEnds)

\* C19: when generation fails with a message containing 'Requested entity was
\* not found' (for images also 'API is only accessible to billed users'), the
\* failing step sets apiKeySelected to false and the error to the API Key
\* error text; on every other failure the step leaves apiKeySelected as it was.
C19_ApiKeyErrors ==
    [][/\ imageGeneration.caught = Null /\ imageGeneration'.caught # Null =>
            LET err == imageGeneration'.caught.error
            IN  IF \/ includes(err.message, NotFoundPhrase)
                   \/ includes(err.message, BilledPhrase)
                THEN /\ ~imageGeneration'.apiKeySelected
                     /\ imageGeneration'.error = ApiKeyError
                ELSE imageGeneration'.apiKeySelected = imageGeneration.apiKeySelected
       /\ videoGeneration.caught = Null /\ videoGeneration'.caught # Null =>
            LET err == videoGeneration'.caught.error
            IN  IF err.kind = "Error" /\ includes(err.message, NotFoundPhrase)
                THEN /\ ~videoGeneration'.apiKeySelected
                     /\ videoGeneration'.error = ApiKeyError
                ELSE videoGeneration'.apiKeySelected = videoGeneration.apiKeySelected
      ]_vars

\* a status check of a video operation has failed with the phrase inside its
\* message, and the key that was selected no longer is
C19_Witness ==
    /\ videoGeneration.caught # Null
    /\ videoGeneration.caught.error.kind = "Error"
    /\ includes(videoGeneration.caught.error.message, NotFoundPhrase)
    /\ videoGeneration.caught.apiKeySelected
    /\ videoGeneration.polls > 0
    /\ ~videoGeneration.apiKeySelected
    /\ videoGeneration.error = ApiKeyError

\* C20: the step that chooses a file larger than 4 MiB sets an error and
\* leaves the selected file, the preview and the analysis as they were; the
\* step that chooses a file of at most 4 MiB makes it the selected file.
C20_LargeFileRejected ==
    [][/\ imageAnalysis'.chosen # Null /\ imageAnalysis'.chosen # imageAnalysis.chosen =>
            LET selectedFile == imageAnalysis'.chosen.file
            IN  IF selectedFile.size > 4194304
                THEN /\ imageAnalysis'.error # <<>>
                     /\ imageAnalysis'.file = imageAnalysis.file
                     /\ imageAnalysis'.image = imageAnalysis.image
                     /\ imageAnalysis'.analysis = imageAnalysis.analysis
                ELSE imageAnalysis'.file = selectedFile
       /\ videoGeneration'.chosen # Null /\ videoGeneration'.chosen # videoGeneration.chosen =>
            LET file == videoGeneration'.chosen.file
            IN  IF file.size > 4194304
                THEN /\ videoGeneration'.error # <<>>
                     /\ videoGeneration'.imageFile = videoGeneration.imageFile
                     /\ videoGeneration'.imagePreview = videoGeneration.imagePreview
                ELSE videoGeneration'.imageFile = file
      ]_vars

\* a file too large was chosen after a file was selected, previewed and
\* analysed: all three are still there, with the error
C20_Witness ==
    /\ imageAnalysis.chosen # Null
    /\ imageAnalysis.chosen.file.size > 4194304
    /\ imageAnalysis.file # Null
    /\ imageAnalysis.image # Null
    /\ imageAnalysis.analysis # Null
    /\ imageAnalysis.error # <<>>

\* a step of the call of handleSendMessage in flight
SendStep == send.pc # "idle" /\ send'.pc # send.pc

\* the step appends a model message, the reply or the placeholder
AppendsModelMessage ==
    /\ Len(messages') = Len(messages) + 1
    /\ messages'[Len(messages')].role = "model"

\* C23: a reply, or the error placeholder, is appended only to the
\* conversation whose user message it answers: when the user has started a
\* new chat or selected another session while the send was in flight, the
\* late reply is not added to the conversation shown and the send does not
\* change the active session.
C23_ReplyInOwnConversation ==
    [][(SendStep /\ ~send.displayed) =>
            /\ ~AppendsModelMessage
            /\ activeSessionId' = activeSessionId]_vars

-----------------------------------------------------------------------------
(* MapsSearch and getCoordinatesForPlaces.  The text of the model's answer  *)
(* is the sequence of its characters; "p" stands for the text of one place  *)
(* object, {"title": ..., "latitude": ..., "longitude": ...}.               *)
(* The characters are the JSON white space " ", the no-break space "nbsp"    *)
(* (white space to trim, not to JSON), the brackets and "p".                *)

\* texts of the answer: the empty text; JSON (an empty list, a list of one
\* place with white space around it, a list in a list, a place object alone);
\* texts cut short or with a bracket too many; JSON with a no-break space
\* before it or after it; a no-break space inside the brackets
JsonTexts ==
    { <<>>,
      <<"[", "]">>,
      <<" ", "[", " ", "p", " ", "]", " ">>,
      <<"[", "[", "]", "]">>,
      <<"p">>,
      <<"[", "p">>,
      <<"[", "]", "]">>,
      <<"p", "p">>,
      <<" ">>,
      <<"nbsp", "[", "p", "]">>,
      <<"[", "]", "nbsp">>,
      <<"[", "nbsp", "]">> }

\* the values JSON.parse returns, and what it throws
PlaceObject == [kind |-> "object"]
ArrayOf(items) == [kind |-> "array", items |-> items]
SyntaxError == [kind |-> "SyntaxError"]
TypeError == [kind |-> "TypeError"]

\* a promise as settled
Fulfilled(value) == [settled |-> "fulfilled", value |-> value]
Rejected(reason) == [settled |-> "rejected", value |-> reason]

RECURSIVE skipJsonWhitespace(_)
\* JSON.parse skips the white space of JSON between tokens
skipJsonWhitespace(str) ==
    IF str # <<>> /\ Head(str) = " " THEN skipJsonWhitespace(Tail(str)) ELSE str

JsonFail == [ok |-> FALSE, value |-> SyntaxError, rest |-> <<>>]

RECURSIVE parseJsonValue(_)
\* JSON.parse reading one value at the start of str: the value and what is
\* left of str, or a failure
parseJsonValue(str) ==
    LET s == skipJsonWhitespace(str)
    IN  IF s = <<>> THEN JsonFail
        ELSE IF Head(s) = "p" THEN [ok |-> TRUE, value |-> PlaceObject, rest |-> Tail(s)]
        ELSE IF Head(s) = "["
        THEN LET t == skipJsonWhitespace(Tail(s))
             IN  IF t # <<>> /\ Head(t) = "]"
                 THEN [ok |-> TRUE, value |-> ArrayOf(<<>>), rest |-> Tail(t)]
                 ELSE LET element == parseJsonValue(t)
                          u == skipJsonWhitespace(element.rest)
                      IN  IF element.ok /\ u # <<>> /\ Head(u) = "]"
                          THEN [ok |-> TRUE, value |-> ArrayOf(<<element.value>>),
                                rest |-> Tail(u)]
                          ELSE JsonFail
        ELSE JsonFail

\* JSON.parse(str): one value and nothing but JSON white space around it
JSONparse(str) ==
    LET r == parseJsonValue(str)
    IN  IF r.ok /\ skipJsonWhitespace(r.rest) = <<>>
        THEN [kind |-> "return", value |-> r.value]
        ELSE [kind |-> "throw", error |-> SyntaxError]

\* what ai.models.generateContent does for getCoordinatesForPlaces: it
\* rejects, or resolves with a response whose text is undefined ("no text")
\* or a string
CoordsResponses ==
    {[kind |-> "reject", text |-> <<>>], [kind |-> "no text", text |-> <<>>]}
    \cup {[kind |-> "resolve", text |-> t] : t \in JsonTexts}

\* the catch block of getCoordinatesForPlaces rethrowing
coordsCatch_rethrow(err) == Rejected(err)

\* the catch block of getCoordinatesForPlaces: return []
coordsCatch(err) == Fulfilled(ArrayOf(<<>>))

\* getCoordinatesForPlaces after its await
getCoordinatesResume(api) ==
    IF api.kind = "reject" THEN coordsCatch(Error(<<"fetch failed">>))
    ELSE IF api.kind = "no text" THEN coordsCatch(TypeError)
    ELSE LET parsedJson == JSONparse(trim(api.text))
         IN  IF parsedJson.kind = "throw" THEN coordsCatch(parsedJson.error)
             ELSE Fulfilled(parsedJson.value)

\* getCoordinatesForPlaces up to its return or its await: the record of the
\* call, with the number of generateContent calls it has made
getCoordinatesStart(placeTitles, caller) ==
    IF Len(placeTitles) = 0
    THEN [caller |-> caller, placeTitles |-> placeTitles, generateContentCalls |-> 0,
          answer |-> "none", promise |-> Fulfilled(ArrayOf(<<>>))]
    ELSE [caller |-> caller, placeTitles |-> placeTitles, generateContentCalls |-> 1,
          answer |-> "none", promise |-> [settled |-> "pending", value |-> Null]]

\* the grammar of JSON over these characters: str is a value with JSON white space
\* around it
AllJsonWhitespace(str) == \A i \in DOMAIN str : str[i] = " "

RECURSIVE IsJson(_)
IsJson(str) ==
    \E i \in 1..Len(str), j \in 1..Len(str) :
        /\ i <= j
        /\ AllJsonWhitespace(SubSeq(str, 1, i - 1))
        /\ AllJsonWhitespace(SubSeq(str, j + 1, Len(str)))
        /\ \/ i = j /\ str[i] = "p"
           \/ /\ i < j /\ str[i] = "[" /\ str[j] = "]"
              /\ \/ AllJsonWhitespace(SubSeq(str, i + 1, j - 1))
                 \/ IsJson(SubSeq(str, i + 1, j - 1))

\* what became of the generateContent call, for the record of the call
AnswerOf(api) ==
    IF api.kind = "reject" THEN "failed"
    ELSE IF api.kind = "no text" THEN "no text"
    ELSE IF IsJson(api.text) THEN "JSON"
    ELSE IF IsJson(trim(api.text)) THEN "JSON when trimmed"
    ELSE "not JSON"

\* place titles and grounding chunks
Titles == {"A"}
MapsChunk(title) == [kind |-> "maps", title |-> title]
WebChunk == [kind |-> "web", title |-> "W"]
SourceLists == SeqsUpTo({MapsChunk(t) : t \in Titles} \cup {WebChunk}, MaxSources)

RECURSIVE mapsTitles(_)
\* sources.map(chunk => 'maps' in chunk ? chunk.maps.title : null)
\*        .filter(title => title !== null)
mapsTitles(sources) ==
    IF sources = <<>> THEN <<>>
    ELSE (IF Head(sources).kind = "maps" THEN <<Head(sources).title>> ELSE <<>>)
         \o mapsTitles(Tail(sources))

\* what ai.models.generateContent does for mapsSearch
MapsResponses ==
    {[kind |-> "reject", text |-> <<>>, sources |-> <<>>]}
    \cup {[kind |-> "resolve", text |-> <<"t">>, sources |-> l] : l \in SourceLists}

\* mapsSearch after its await
mapsSearchResume(api) ==
    IF api.kind = "reject"
    THEN Rejected(Error(<<"An error occurred during the Maps search. Please try again.">>))
    ELSE Fulfilled([text |-> api.text, sources |-> api.sources])

\* setPrompt: the textarea is disabled while loading
MapsSetPrompt ==
    /\ ~mapsSearch.isLoading
    /\ \E p \in Prompts \ {mapsSearch.prompt} :
          mapsSearch' = [mapsSearch EXCEPT !.prompt = p]
    /\ UNCHANGED coordsCalls
    /\ UNCHANGED notMaps

\* handleSubmit up to its await; the effect runs on the null response and
\* does nothing
MapsHandleSubmit ==
    /\ ~(trim(mapsSearch.prompt) = <<>> \/ mapsSearch.isLoading)
    /\ Len(coordsCalls) < MaxCoordsCalls
    /\ mapsSearch' = [mapsSearch EXCEPT !.isLoading = TRUE,
                                        !.response = Null,
                                        !.placesWithCoords = ArrayOf(<<>>),
                                        !.error = <<>>,
                                        !.handleSubmit = "mapsSearch"]
    /\ UNCHANGED coordsCalls
    /\ UNCHANGED notMaps

\* handleSubmit after its await, then the effect on the new response:
\* fetchCoords up to its await or its end
MapsSearchSettles ==
    /\ mapsSearch.handleSubmit = "mapsSearch"
    /\ \E api \in MapsResponses :
          LET result == mapsSearchResume(api)
          IN  IF result.settled = "rejected"
              THEN /\ mapsSearch' = [mapsSearch EXCEPT !.error = result.value.message,
                                                       !.isLoading = FALSE,
                                                       !.handleSubmit = "idle"]
                   /\ UNCHANGED coordsCalls
              ELSE LET response == result.value
                       placeTitles == mapsTitles(response.sources)
                       fetching == Len(response.sources) > 0 /\ Len(placeTitles) > 0
                   IN  /\ mapsSearch' = [mapsSearch EXCEPT !.response = response,
                                                           !.isLoading = FALSE,
                                                           !.handleSubmit = "idle",
                                                           !.isFetchingCoords =
                                                               IF Len(response.sources) > 0
                                                               THEN fetching ELSE @]
                       /\ coordsCalls' =
                              IF fetching
                              THEN Append(coordsCalls,
                                          getCoordinatesStart(placeTitles, "fetchCoords"))
                              ELSE coordsCalls
    /\ UNCHANGED notMaps

\* another importer of the service calls getCoordinatesForPlaces
GetCoordinatesForPlaces ==
    /\ Len(coordsCalls) + (IF mapsSearch.handleSubmit = "idle" THEN 0 ELSE 1) < MaxCoordsCalls
    /\ \E placeTitles \in SeqsUpTo(Titles, MaxSources) :
          coordsCalls' = Append(coordsCalls, getCoordinatesStart(placeTitles, "other"))
    /\ UNCHANGED mapsSearch
    /\ UNCHANGED notMaps

\* getCoordinatesForPlaces after its await; fetchCoords goes on when the call
\* was its own and the promise is fulfilled
GetCoordinatesSettles ==
    /\ \E i \in DOMAIN coordsCalls, api \in CoordsResponses :
          LET promise == getCoordinatesResume(api)
          IN  /\ coordsCalls[i].promise.settled = "pending"
              /\ coordsCalls' = [coordsCalls EXCEPT ![i].promise = promise,
                                                    ![i].answer = AnswerOf(api)]
              /\ mapsSearch' =
                     IF coordsCalls[i].caller = "fetchCoords" /\ promise.settled = "fulfilled"
                     THEN [mapsSearch EXCEPT !.placesWithCoords = promise.value,
                                             !.isFetchingCoords = FALSE]
                     ELSE mapsSearch
    /\ UNCHANGED notMaps

\* the alert is closed
MapsCloseAlert ==
    /\ mapsSearch.error # <<>>
    /\ mapsSearch' = [mapsSearch EXCEPT !.error = <<>>]
    /\ UNCHANGED coordsCalls
    /\ UNCHANGED notMaps

\* MapsSearch is mounted
InitMaps ==
    /\ mapsSearch = MapsSearchMounted
    /\ coordsCalls = <<>>
    /\ EncoderIdle /\ TTSIdle /\ ParIdle /\ DbIdle /\ ChatIdle /\ ToolsIdle

NextMaps ==
    \/ MapsSetPrompt
    \/ MapsHandleSubmit
    \/ MapsSearchSettles
    \/ GetCoordinatesForPlaces
    \/ GetCoordinatesSettles
    \/ MapsCloseAlert

SpecMaps == InitMaps /\ [][NextMaps]_vars


\* the empty list getCoordinatesForPlaces returns
ReturnsEmptyList(call) == call.promise = Fulfilled(ArrayOf(<<>>))

\* C21 as stated: getCoordinatesForPlaces never rejects; given an empty list
\* of titles it returns an empty list without calling the model; when the
\* model call fails or its text is not valid JSON it returns an empty list.
C21_Original ==
    \A i \in DOMAIN coordsCalls :
        LET call == coordsCalls[i]
        IN  /\ call.promise.settled # "rejected"
            /\ (Len(call.placeTitles) = 0
                    => ReturnsEmptyList(call) /\ call.generateContentCalls = 0)
            /\ (call.answer \in {"failed", "no text", "not JSON", "JSON when trimmed"}
                    => ReturnsEmptyList(call))

\* C21 amended: getCoordinatesForPlaces never rejects; given an empty list
\* of titles it returns an empty list without calling the model; when the
\* model call fails, the response has no text, or the text with the white
\* space of String.prototype.trim removed from both ends is not valid JSON,
\* it returns an empty list.
C21_Amended ==
    \A i \in DOMAIN coordsCalls :
        LET call == coordsCalls[i]
        IN  /\ call.promise.settled # "rejected"
            /\ (Len(call.placeTitles) = 0
                    => ReturnsEmptyList(call) /\ call.generateContentCalls = 0)
            /\ (call.answer \in {"failed", "no text", "not JSON"}
                    => ReturnsEmptyList(call))

\* the call of fetchCoords was answered by text that is no JSON even when
\* trimmed and returned the empty list, and fetchCoords is over
C21_Witness ==
    /\ ~mapsSearch.isFetchingCoords
    /\ mapsSearch.placesWithCoords = ArrayOf(<<>>)
    /\ \E i \in DOMAIN coordsCalls :
          /\ coordsCalls[i].caller = "fetchCoords"
          /\ coordsCalls[i].answer = "not JSON"
          /\ coordsCalls[i].generateContentCalls = 1
          /\ ReturnsEmptyList(coordsCalls[i])

\* a step of handleSubmit of VideoGeneration from one await to the next:
\* an operation that is not done is followed by the wait, the wait by a
\* status check, and only an operation that is done by the download
VideoPollingStep ==
    LET before == videoGeneration.handleSubmit
        after == videoGeneration'.handleSubmit
        operation == videoGeneration'.operation
    IN  (activeTool = "video" /\ activeTool' = "video" /\ after # before) =>
            /\ before = "setTimeout" => after = "checkVideoOperationStatus"
            /\ after = "checkVideoOperationStatus" => before = "setTimeout"
            /\ after = "setTimeout" =>
                    /\ before \in {"generateVideo", "checkVideoOperationStatus"}
                    /\ operation # Null /\ ~operation.done
            /\ (before \in {"generateVideo", "checkVideoOperationStatus"}
                    /\ videoGeneration'.caught = Null)
                    => /\ operation # Null
                       /\ after = IF operation.done THEN "fetch" ELSE "setTimeout"
            /\ after = "fetch" => operation # Null /\ operation.done
            /\ after = "blob" => before = "fetch"

\* a video shown was downloaded by the handler after it saw the operation
\* done: the URL is set by the step in which blob() resolves and by no other
VideoUrlAfterDownload ==
    /\ (videoGeneration.generatedVideoUrl = Null
            /\ videoGeneration'.generatedVideoUrl # Null)
            => /\ videoGeneration.handleSubmit = "blob"
               /\ videoGeneration.operation # Null
               /\ videoGeneration.operation.done
               /\ videoGeneration.operation.downloadLink
               /\ ~videoGeneration'.isLoading
    /\ (videoGeneration.handleSubmit # "idle" /\ activeTool' = "video")
            => videoGeneration.generatedVideoUrl = Null

=============================================================================
